---- MODULE Spec2Model ----
(***************************************************************************)
(* Root-cause service: link discovery, URL classification, dispatch to     *)
(* the platform processors, consensus store and output assembly.           *)
(*                                                                         *)
(* A URL is a sequence of string pieces: piece 1 is the host, the others   *)
(* are consecutive pieces of the path and query.  The URL text is          *)
(* "https://" followed by the pieces in order.  Python's `pat in url` is   *)
(* computed from the table Markers, which lists for every piece the        *)
(* patterns of the source that occur in it.                                *)
(***************************************************************************)
EXTENDS Integers, Sequences, FiniteSets, TLC

VARIABLES
    urls,            \* the list given to URLClassifier.classify
    classifier,      \* the nine lists of the URLClassifier object
    buckets,         \* the dict returned by the last classify call
    classify_calls,  \* number of classify calls made on the object
    src_out,         \* what each discovery source answered
    discovery,       \* "none", "returned" or "raised"
    queried,         \* the sources link discovery has asked
    raw_links,       \* the list link discovery returned
    pc,              \* where run() of main.py stands
    repo_url,        \* the "repo" field of the task
    url_to_source,   \* the dict of MainProcessor.run, in insertion order
    cursor,          \* position of MainProcessor.run in its bucket loops
    handed,          \* the process(url, cve_id, source) calls made so far
    work,            \* the URL a processor is working on
    files,           \* the futures of the commit under analysis
    store,           \* ConsensusStore._data
    main_raised,     \* run_main_processor ended with an exception
    assembly_in,     \* the entries read by extract_and_build_output
    output_content,  \* the aggregate handed to VEXBuilder
    out_file,        \* the output file
    input_file,      \* what the input file of the task holds
    task,            \* purl, cve_id and ecosystem of validate_and_extract_fields
    logged,          \* the error messages run() has logged while loading
    finished,        \* length of the store at the end of each earlier run()
    ref_call,        \* one call of get_reference_url and its result
    write_calls,     \* the write_to_output calls of the analysers
    cvss_call,       \* one call of extract_cvss and its result
    llm              \* the model layer working on one diff unit

classVars == <<urls, classifier, buckets, classify_calls>>
linkVars == <<src_out, discovery, queried, raw_links>>
callVars == <<cvss_call, llm>>
taskVars == <<input_file, task, logged, finished, ref_call, callVars>>
runVars ==
    <<pc, repo_url, url_to_source, cursor, handed, work, files, store,
      main_raised, assembly_in, output_content, out_file, write_calls, taskVars>>
vars == <<classVars, linkVars, runVars>>

NoneVal == [none |-> TRUE]

\* A URL that is None or "".
NoUrl == <<>>

\* A string field that is None; "None" is what an f-string prints for it.
NoneStr == "None"

\* All sequences over S of length at most n.
SeqsUpTo(S, n) == UNION {[1..k -> S] : k \in 0..n}

\* The sequences of SeqsUpTo(S, n) without a repeated element.
UniqueSeqsUpTo(S, n) ==
    {q \in SeqsUpTo(S, n) : \A i, j \in 1..Len(q) : q[i] = q[j] => i = j}

Range(q) == {q[i] : i \in 1..Len(q)}

Count(q, x) == Cardinality({i \in 1..Len(q) : q[i] = x})

(* ---------------------------------------------------------------------- *)
(* Bounds                                                                 *)
(* ---------------------------------------------------------------------- *)
MaxLinks == 3
MaxSourceLinks == 2
MaxCalls == 2
MaxFiles == 2
MaxRunFiles == 1
MaxRunLinks == 2
MaxCommits == 2
MaxTasks == 2
MaxBlocks == 3
MaxSegments == 2

(* ---------------------------------------------------------------------- *)
(* URLs                                                                   *)
(* ---------------------------------------------------------------------- *)
U_gitlab == <<"gitlab.com", "/g/p", "/-/commit", "/abc123">>
U_sourceware == <<"sourceware.org", "/git/gitweb.cgi?p=glibc.git", ";a=commitdiff", ";h=deadbeef">>
U_bitbucket == <<"bitbucket.org", "/x/y", "/commits", "/123">>
U_bitbucket_repo == <<"bitbucket.org", "/x/y">>
U_commit == <<"github.com", "/acme", "/foo", "/commit", "/abc123">>
U_commit_fork == <<"github.com", "/evil", "/foo", "/commit", "/abc123">>
U_pull == <<"github.com", "/acme", "/foo", "/pull", "/7">>
U_pull_commits == <<"github.com", "/acme", "/foo", "/pull", "/7", "/commits", "/abc123">>
U_issues == <<"github.com", "/acme", "/foo", "/issues", "/9">>
U_advisory == <<"github.com", "/acme", "/foo", "/security/advisories", "/GHSA-1">>
U_tag == <<"github.com", "/acme", "/foo", "/releases", "/tag", "/v1">>
U_repo == <<"github.com", "/acme", "/foo">>
U_redhat == <<"access.redhat.com", "/errata", "/commit", "/abc123">>
U_gitlab_repo == <<"gitlab.com", "/g/p">>
U_mirror == <<"example.org", "/mirror?u=sourceware.org", ";h=deadbeef">>
U_other == <<"example.org", "/page">>
U_pages == <<"acme.github.io", "/foo", "/docs", "/page">>
U_owner == <<"github.com", "/acme">>
U_selfhosted == <<"mygitlab.com", "/evil", "/foo", "/commit", "/abc123">>

URLS ==
    { U_gitlab, U_sourceware, U_bitbucket, U_bitbucket_repo, U_commit,
      U_commit_fork, U_pull, U_pull_commits, U_issues, U_advisory, U_tag,
      U_repo, U_redhat, U_gitlab_repo, U_mirror, U_other }

\* The patterns of url_classifier.py that occur in one piece of a URL.
Markers(piece) ==
    CASE piece = "gitlab.com" -> {"gitlab.com"}
      [] piece = "sourceware.org" -> {"sourceware.org"}
      [] piece = "bitbucket.org" -> {"bitbucket"}
      [] piece = "github.com" -> {"github", "github.com"}
      [] piece = "acme.github.io" -> {"github"}
      [] piece = "mygitlab.com" -> {"gitlab.com"}
      [] piece = "access.redhat.com" -> {"redhat"}
      [] piece = "/-/commit" -> {"/-/commit", "/commit"}
      [] piece = "/commit" -> {"/commit"}
      [] piece = "/commits" -> {"/commit", "/commits/"}
      [] piece = "/pull" -> {"/pull"}
      [] piece = "/issues" -> {"/issues"}
      [] piece = "/security/advisories" -> {"/security/advisories"}
      [] piece = "/tag" -> {"/tag"}
      [] piece = ";a=commitdiff" -> {"commitdiff"}
      [] piece = ";a=blobdiff" -> {"blobdiff"}
      [] piece = ";h=deadbeef" -> {";h="}
      [] piece = "/mirror?u=sourceware.org" -> {"sourceware.org"}
      [] OTHER -> {}

\* `pat in url`
Contains(url, pat) == \E i \in 1..Len(url) : pat \in Markers(url[i])

(* ---------------------------------------------------------------------- *)
(* URLClassifier                                                          *)
(* ---------------------------------------------------------------------- *)
BucketNames ==
    <<"bitbucket", "sourceware", "gitlab", "commit", "pull", "issues",
      "patch", "github", "other">>

BucketSet == {BucketNames[i] : i \in 1..Len(BucketNames)}

\* URLClassifier.__init__: nine empty lists.
NewClassifier == [b \in BucketSet |-> <<>>]

excludes == {"redhat", "netapp"}

NotExcluded(url) == \A item \in excludes : ~Contains(url, item)

\* Mutation of classify_url: the gitlab test comes after the commit test.
classify_url_commit_first(self, url) ==
    IF Contains(url, "bitbucket")
    THEN [self EXCEPT !["bitbucket"] = Append(@, url)]
    ELSE IF Contains(url, "sourceware.org")
            /\ (Contains(url, "commitdiff") \/ Contains(url, "blobdiff")
                \/ Contains(url, ";h="))
    THEN [self EXCEPT !["sourceware"] = Append(@, url)]
    ELSE IF Contains(url, "/commit") /\ NotExcluded(url)
    THEN [self EXCEPT !["commit"] = Append(@, url)]
    ELSE IF Contains(url, "gitlab.com") /\ Contains(url, "/-/commit")
    THEN [self EXCEPT !["gitlab"] = Append(@, url)]
    ELSE IF Contains(url, "/pull") /\ NotExcluded(url)
    THEN [self EXCEPT !["pull"] = Append(@, url)]
    ELSE IF Contains(url, "/issues") /\ NotExcluded(url)
    THEN [self EXCEPT !["issues"] = Append(@, url)]
    ELSE IF Contains(url, "/security/advisories") \/ Contains(url, "/tag")
    THEN [self EXCEPT !["patch"] = Append(@, url)]
    ELSE IF Contains(url, "github")
            /\ ~(\E sub \in {"/commit", "/pull", "/issues",
                             "/security/advisories", "/tag"} :
                    Contains(url, sub))
    THEN [self EXCEPT !["github"] = Append(@, url)]
    ELSE [self EXCEPT !["other"] = Append(@, url)]

\* The body of the loop of classify: one if/elif chain per URL.
classify_url(self, url) ==
    IF Contains(url, "bitbucket")
    THEN [self EXCEPT !["bitbucket"] = Append(@, url)]
    ELSE IF Contains(url, "sourceware.org")
            /\ (Contains(url, "commitdiff") \/ Contains(url, "blobdiff")
                \/ Contains(url, ";h="))
    THEN [self EXCEPT !["sourceware"] = Append(@, url)]
    ELSE IF Contains(url, "gitlab.com") /\ Contains(url, "/-/commit")
    THEN [self EXCEPT !["gitlab"] = Append(@, url)]
    ELSE IF Contains(url, "/commit") /\ NotExcluded(url)
    THEN [self EXCEPT !["commit"] = Append(@, url)]
    ELSE IF Contains(url, "/pull") /\ NotExcluded(url)
    THEN [self EXCEPT !["pull"] = Append(@, url)]
    ELSE IF Contains(url, "/issues") /\ NotExcluded(url)
    THEN [self EXCEPT !["issues"] = Append(@, url)]
    ELSE IF Contains(url, "/security/advisories") \/ Contains(url, "/tag")
    THEN [self EXCEPT !["patch"] = Append(@, url)]
    ELSE IF Contains(url, "github")
            /\ ~(\E sub \in {"/commit", "/pull", "/issues",
                             "/security/advisories", "/tag"} :
                    Contains(url, sub))
    THEN [self EXCEPT !["github"] = Append(@, url)]
    ELSE [self EXCEPT !["other"] = Append(@, url)]

RECURSIVE classify_loop(_, _, _)
\* Mutation of classify: a URL that was seen earlier in the list is not
\* appended again.
classify_loop_skip_seen(self, unique_links, i) ==
    IF i > Len(unique_links) THEN self
    ELSE classify_loop(
            IF \E j \in 1..(i - 1) : unique_links[j] = unique_links[i]
            THEN self ELSE classify_url(self, unique_links[i]),
            unique_links, i + 1)

\* `for url in unique_links:` from position i on.
classify_loop(self, unique_links, i) ==
    IF i > Len(unique_links) THEN self
    ELSE classify_loop(classify_url(self, unique_links[i]), unique_links, i + 1)

\* URLClassifier.classify: the lists of the object after the call; the
\* returned dict holds these same lists.
classify(self, unique_links) == classify_loop(self, unique_links, 1)


(* ---------------------------------------------------------------------- *)
(* LinkManager                                                            *)
(* ---------------------------------------------------------------------- *)
SourceOrder == <<"NVD", "OSV", "Debian", "WebSearch">>

SourceSet == {SourceOrder[i] : i \in 1..Len(SourceOrder)}

\* The URLs the discovery sources can return.
LinkURLs == {U_commit, U_bitbucket_repo, U_tag}

\* A source answers with a list of URLs, or fails (non-200 status or
\* exception).  extract_links_for_cve of NVD and OSV and extract_note_urls
\* return lists without repetition; the web search returns re.findall.
Failed == [ok |-> FALSE, urls |-> <<>>]

Answer(q) == [ok |-> TRUE, urls |-> q]

UniqueAnswers(S, n) == {Failed} \cup {Answer(q) : q \in UniqueSeqsUpTo(S, n)}

AnyAnswers(S, n) == {Failed} \cup {Answer(q) : q \in SeqsUpTo(S, n)}

\* [{"url": url, "source": src} for url in ...]
links_of(src, q) == [i \in 1..Len(q) |-> [url |-> q[i], source |-> src]]

RECURSIVE unique_loop(_, _, _, _)
\* Mutation of unique_loop: a later entry of a URL replaces the earlier one.
unique_loop_last_wins(links, i, seen, unique_links) ==
    IF i > Len(links) THEN unique_links
    ELSE IF links[i].url \notin seen
         THEN unique_loop(links, i + 1, seen \cup {links[i].url},
                          Append(unique_links, links[i]))
         ELSE unique_loop(links, i + 1, seen,
                          [k \in 1..Len(unique_links) |->
                              IF unique_links[k].url = links[i].url
                              THEN links[i] ELSE unique_links[k]])

\* "Deduplicate by URL while keeping the first source"
unique_loop(links, i, seen, unique_links) ==
    IF i > Len(links) THEN unique_links
    ELSE IF links[i].url \notin seen
         THEN unique_loop(links, i + 1, seen \cup {links[i].url},
                          Append(unique_links, links[i]))
         ELSE unique_loop(links, i + 1, seen, unique_links)

\* DebianCVETracker.__init__ and extract_note_urls: a failed fetch of the
\* tracker page is caught, soup is None and the notes are [].
extract_note_urls(out) == IF out.ok THEN out.urls ELSE <<>>

\* LinkManager.combine_and_extract_unique_links.  The tracker page is
\* fetched first (in the constructor of DebianCVETracker), then NVD, OSV
\* and the web search are asked in this order; none of these three calls
\* is inside a try.
combine_and_extract_unique_links(out) ==
    IF ~out["NVD"].ok
    THEN [raised |-> TRUE, asked |-> {"Debian", "NVD"}, links |-> <<>>]
    ELSE IF ~out["OSV"].ok
    THEN [raised |-> TRUE, asked |-> {"Debian", "NVD", "OSV"}, links |-> <<>>]
    ELSE IF ~out["WebSearch"].ok
    THEN [raised |-> TRUE, asked |-> SourceSet, links |-> <<>>]
    ELSE [raised |-> FALSE, asked |-> SourceSet,
          links |-> unique_loop(
                        links_of("NVD", out["NVD"].urls)
                        \o links_of("OSV", out["OSV"].urls)
                        \o links_of("Debian", extract_note_urls(out["Debian"]))
                        \o links_of("WebSearch", out["WebSearch"].urls),
                        1, {}, <<>>)]

(* ---------------------------------------------------------------------- *)
(* Consensus responses and extract_clean_json                             *)
(* ---------------------------------------------------------------------- *)
\* One entry of a root_cause_functions list.  is_dict is FALSE for an entry
\* that is not a JSON object (a bare string); canonical_name is the list
\* under the key "canonical_name", <<>> when the key is absent.
Func(name, canon, pkg, ver, dict) ==
    [function_name |-> name, canonical_name |-> canon, package |-> pkg,
     version |-> ver, is_dict |-> dict]

F_parseInput == Func("parseInput", <<>>, "", "", TRUE)
F_readBuf == Func("readBuf", <<>>, "foo", "1.0", TRUE)
F_canonical == Func("parseInput", <<"foo.parseInput">>, "foo", "1.0", TRUE)
F_bare == Func("parseInput", <<>>, "", "", FALSE)
F_both == Func("readBuf", <<"foo.readBuf", "foo.parseInput">>, "foo", "1.0", TRUE)

\* A parsed JSON value: an object with or without the key
\* root_cause_functions, or an array.
JObject(kind, items) ==
    [type |-> "object", rcf |-> kind, items |-> items, has_key |-> kind # "missing"]

JArray(has_key) ==
    [type |-> "array", rcf |-> "missing", items |-> <<>>, has_key |-> has_key]

\* The text of a model response is a sequence of segments: prose, prose
\* that holds a closing brace, a well-formed JSON value, or a brace pair
\* that is not JSON.
Seg(kind, val) == [kind |-> kind, val |-> val]

S_text == Seg("text", NoneVal)
S_text_brace == Seg("text}", NoneVal)
S_bad == Seg("bad{}", NoneVal)
S_missing == Seg("json", JObject("missing", <<>>))
S_string == Seg("json", JObject("string", <<>>))
S_empty == Seg("json", JObject("list", <<>>))
S_one == Seg("json", JObject("list", <<F_parseInput>>))
S_two == Seg("json", JObject("list", <<F_parseInput, F_readBuf>>))
S_canonical == Seg("json", JObject("list", <<F_canonical>>))
S_bare == Seg("json", JObject("list", <<F_bare>>))
S_array == Seg("json", JArray(FALSE))
S_array_key == Seg("json", JArray(TRUE))

Segments ==
    { S_text, S_text_brace, S_bad, S_missing, S_string, S_empty, S_one,
      S_two, S_canonical, S_bare, S_array, S_array_key }

\* The first character of a segment when it is "{" or "[".
Opener(seg) ==
    IF seg.kind = "bad{}" THEN "{"
    ELSE IF seg.kind = "json"
         THEN (IF seg.val.type = "object" THEN "{" ELSE "[")
         ELSE ""

\* Whether the segment holds the closing character of the opener.
HasCloser(seg, open) ==
    IF open = "{"
    THEN \/ seg.kind \in {"bad{}", "text}"}
         \/ seg.kind = "json" /\ seg.val.type = "object"
    ELSE \/ seg.kind = "json" /\ seg.val.type = "array"
         \/ seg.kind = "json" /\ seg.val.rcf = "list"

\* Mutation of extract_clean_json: the match is lazy, it ends at the first
\* closing character, so text after the first JSON value is ignored.
extract_clean_json_lazy(text) ==
    LET opens == {i \in 1..Len(text) : Opener(text[i]) # ""}
    IN IF opens = {} THEN NoneVal
       ELSE LET first == CHOOSE i \in opens : \A j \in opens : i <= j
            IN IF text[first].kind = "json" THEN text[first].val ELSE NoneVal

\* extract_clean_json: re.search(r"(\{[\s\S]*}|\[[\s\S]*])") matches from the
\* leftmost opener to the last closer of its kind; the match is returned
\* when json.loads accepts it, None otherwise.  The result is given as the
\* value json.loads(clean) yields.
extract_clean_json(text) ==
    LET opens == {i \in 1..Len(text) : Opener(text[i]) # ""}
    IN IF opens = {} THEN NoneVal
       ELSE LET first == CHOOSE i \in opens : \A j \in opens : i <= j
                closers == {j \in first..Len(text) : HasCloser(text[j], Opener(text[first]))}
                last == CHOOSE j \in closers : \A k \in closers : k <= j
            IN IF last = first /\ text[first].kind = "json"
               THEN text[first].val
               ELSE NoneVal

\* Mutation of accepts: the length test is dropped.
accepts_any_list(consensus_json) ==
    /\ consensus_json # NoneVal
    /\ consensus_json.type = "object"
    /\ consensus_json.has_key
    /\ consensus_json.rcf = "list"

\* The test of process_file on json.loads(clean).  json.loads(None) raises,
\* and so does indexing an array with the key; both are caught and the unit
\* gives None.
accepts(consensus_json) ==
    /\ consensus_json # NoneVal
    /\ consensus_json.has_key
    /\ consensus_json.type = "object"
    /\ consensus_json.rcf = "list"
    /\ Len(consensus_json.items) > 0

(* ---------------------------------------------------------------------- *)
(* BaseAnalyser: reference URL and the consensus store entry              *)
(* ---------------------------------------------------------------------- *)
CveId == "CVE-2024-0001"

Purl == "pkg:npm/foo"

\* Number of "/" in one piece of a URL.
Slashes(piece) ==
    CASE piece \in {"/g/p", "/x/y", "/security/advisories",
                    "/git/gitweb.cgi?p=glibc.git"} -> 2
      [] piece \in {"gitlab.com", "sourceware.org", "bitbucket.org", "github.com",
                    "access.redhat.com", "example.org", "acme.github.io",
                    "mygitlab.com",
                    ";a=commitdiff", ";a=blobdiff", ";h=deadbeef"} -> 0
      [] OTHER -> 1

\* len(url.split("/")): "https:", "" and the host, then one part per "/".
NumParts(url) ==
    LET n[k \in 0..Len(url)] == IF k = 0 THEN 3 ELSE n[k - 1] + Slashes(url[k])
    IN n[Len(url)]

\* "/".join(url.split("/")[:5]): the pieces up to the second "/" after the
\* host (the sample URLs of github.com have one "/" per piece there).
FirstFiveParts(url) ==
    LET keep == {k \in 0..Len(url) : NumParts(SubSeq(url, 1, k)) <= 5}
    IN SubSeq(url, 1, CHOOSE k \in keep : \A j \in keep : j <= k)

\* url.split(";")[0]: the pieces before the first one that starts with ";".
BeforeSemicolon(url) ==
    LET semis == {k \in 1..Len(url) : url[k] \in {";a=commitdiff", ";a=blobdiff", ";h=deadbeef"}}
    IN IF semis = {} THEN url
       ELSE SubSeq(url, 1, (CHOOSE k \in semis : \A j \in semis : k <= j) - 1)

\* Mutation of get_reference_url: a manual-input URL is truncated when it
\* contains "github".
get_reference_url_github(cve_id, url, source) ==
    IF source = "NVD" THEN <<"nvd.nist.gov", "/vuln/detail/", cve_id>>
    ELSE IF source = "OSV" THEN <<"osv.dev", "/list?q=", cve_id, "&ecosystem=">>
    ELSE IF source = "Debian"
    THEN <<"security-tracker.debian.org", "/tracker/", cve_id>>
    ELSE IF source \in {"sourceware", "gitlab"} THEN BeforeSemicolon(url)
    ELSE IF source = "Manual Input"
    THEN (IF Contains(url, "github") /\ NumParts(url) >= 5
          THEN FirstFiveParts(url) ELSE url)
    ELSE url

\* BaseAnalyser.get_reference_url
get_reference_url(cve_id, url, source) ==
    IF source = "NVD" THEN <<"nvd.nist.gov", "/vuln/detail/", cve_id>>
    ELSE IF source = "OSV" THEN <<"osv.dev", "/list?q=", cve_id, "&ecosystem=">>
    ELSE IF source = "Debian"
    THEN <<"security-tracker.debian.org", "/tracker/", cve_id>>
    ELSE IF source \in {"sourceware", "gitlab"} THEN BeforeSemicolon(url)
    ELSE IF source = "Manual Input"
    THEN (IF Contains(url, "github.com") /\ NumParts(url) >= 5
          THEN FirstFiveParts(url) ELSE url)
    ELSE url

\* The text block of log_consensus_entry, line by line: the marker line
\* with the commit URL, the Source line, the Reference URL line and the
\* lines of json.dumps([consensus_json], indent=2).
Line(tag, val) == [tag |-> tag, val |-> val]

consensus_entry(commit_url, consensus_json, cve_id, source) ==
    << Line("Root cause exists in the commit URL:", commit_url),
       Line("Source:", source),
       Line("Reference URL:", get_reference_url(cve_id, commit_url, source)),
       Line("json", <<consensus_json>>) >>

\* Mutation of ConsensusStore.add: a worker writes back the list it read
\* before the other workers appended.
ConsensusStore_add_lost_update(data, entry) == <<entry>>

\* ConsensusStore.add: cls._data.append(entry), one list.append call, which
\* the interpreter executes atomically with respect to the other threads.
ConsensusStore_add(data, entry) == Append(data, entry)

(* ---------------------------------------------------------------------- *)
(* rcs_format: the aggregate read back from the store                     *)
(* ---------------------------------------------------------------------- *)
\* netloc.lower()
Lower(host) == IF host = "GitHub.com" THEN "github.com" ELSE host

\* path.lstrip("/").split("/", 1)[0]
FirstSegment(piece) ==
    CASE piece = "/acme" -> "acme"
      [] piece = "/evil" -> "evil"
      [] piece = "/g/p" -> "g"
      [] piece = "/x/y" -> "x"
      [] piece = "/git/gitweb.cgi?p=glibc.git" -> "git"
      [] piece = "/errata" -> "errata"
      [] piece = "/page" -> "page"
      [] piece = "/mirror?u=sourceware.org" -> "mirror"
      [] OTHER -> ""

NoBase == [netloc |-> "", owner |-> ""]

\* _owner_base: scheme://netloc/owner, "" when there is no URL or no owner.
owner_base(url) ==
    IF Len(url) < 2 \/ FirstSegment(url[2]) = "" THEN NoBase
    ELSE [netloc |-> Lower(url[1]), owner |-> FirstSegment(url[2])]

\* _commit_matches_repo
commit_matches_repo(commit_url, repo) ==
    IF repo = NoUrl THEN TRUE
    ELSE IF \E host \in {"sourceware.org", "gitlab.com"} : host \in Markers(Lower(commit_url[1]))
    THEN TRUE
    ELSE owner_base(commit_url) = owner_base(repo)

\* A string that breaks the hand-written JSON of the aggregate when it is
\* put between quotes unescaped.
JsonUnsafe(str) == str = "a\"b"

\* The value of the last line of the block that starts with tag.
LineVal(block, tag, default) ==
    LET hits == {k \in 2..Len(block) : block[k].tag = tag}
    IN IF hits = {} THEN default
       ELSE block[CHOOSE k \in hits : \A j \in hits : j <= k].val

RECURSIVE block_functions(_, _, _)
\* Mutation of block_functions: the names are read from "function_name".
block_functions_by_name(items, k, acc) ==
    IF k > Len(items) THEN acc
    ELSE IF ~items[k].is_dict THEN [acc EXCEPT !.error = TRUE]
    ELSE block_functions(items, k + 1,
            [acc EXCEPT !.methods = Append(@, items[k].function_name),
                        !.pkg = IF @ # "" THEN @ ELSE items[k].package,
                        !.ver = IF @ # "" THEN @ ELSE items[k].version])

\* `for func in entry.get("root_cause_functions", [])`: the names under
\* "canonical_name" extend methods; func.get on an entry that is not a dict
\* raises AttributeError.
block_functions(items, k, acc) ==
    IF k > Len(items) THEN acc
    ELSE IF ~items[k].is_dict THEN [acc EXCEPT !.error = TRUE]
    ELSE block_functions(items, k + 1,
            [acc EXCEPT !.methods = @ \o items[k].canonical_name,
                        !.pkg = IF @ # "" THEN @ ELSE items[k].package,
                        !.ver = IF @ # "" THEN @ ELSE items[k].version])

RECURSIVE merge_methods(_, _, _)
\* Mutation of merge_methods: every name is appended.
merge_methods_append_all(old, new, k) == old \o new

\* `if m not in info["methods"]: info["methods"].append(m)`
merge_methods(old, new, k) ==
    IF k > Len(new) THEN old
    ELSE merge_methods(IF new[k] \in Range(old) THEN old ELSE Append(old, new[k]),
                       new, k + 1)

RECURSIVE parse_blocks(_, _, _, _)
\* The loop over the blocks of extract_root_cause_functions_from_string;
\* commits is the dict in insertion order.
parse_blocks(blocks, i, commits, repo) ==
    IF i > Len(blocks) THEN [raised |-> FALSE, commits |-> commits]
    ELSE
      LET block == blocks[i]
          commit_url == block[1].val
          parsed == LineVal(block, "json", <<>>)
          items == IF parsed = <<>> \/ parsed[1].rcf # "list" THEN <<>>
                   ELSE parsed[1].items
          r == block_functions(items, 1,
                   [methods |-> <<>>, pkg |-> "", ver |-> "", error |-> FALSE])
          at == {k \in 1..Len(commits) : commits[k].commit = commit_url}
      IN IF ~commit_matches_repo(commit_url, repo)
         THEN parse_blocks(blocks, i + 1, commits, repo)
         ELSE IF r.error THEN [raised |-> TRUE, commits |-> <<>>]
         ELSE IF r.methods = <<>> THEN parse_blocks(blocks, i + 1, commits, repo)
         ELSE IF at = {}
         THEN parse_blocks(blocks, i + 1,
                  Append(commits,
                      [commit |-> commit_url, package |-> r.pkg, version |-> r.ver,
                       source |-> [name |-> LineVal(block, "Source:", ""),
                                   url |-> LineVal(block, "Reference URL:", "")],
                       methods |-> merge_methods(<<>>, r.methods, 1)]),
                  repo)
         ELSE parse_blocks(blocks, i + 1,
                  [commits EXCEPT ![CHOOSE k \in at : TRUE].methods =
                                      merge_methods(@, r.methods, 1)],
                  repo)

\* extract_and_build_output up to the construction of VEXBuilder: the store
\* is joined, split again at the marker and parsed; the hand-written JSON of
\* the aggregate is parsed with json.loads.  Any exception gives None.
output_content_of(entries, repo) ==
    LET r == parse_blocks(entries, 1, <<>>, repo)
    IN IF r.raised THEN [ok |-> FALSE, commits |-> <<>>]
       ELSE IF \E k \in 1..Len(r.commits) :
                  JsonUnsafe(r.commits[k].package) \/ JsonUnsafe(r.commits[k].version)
       THEN [ok |-> FALSE, commits |-> <<>>]
       ELSE [ok |-> TRUE, commits |-> r.commits]

(* ---------------------------------------------------------------------- *)
(* Diff units and the source-file filter                                  *)
(* ---------------------------------------------------------------------- *)
VALID_EXTENSIONS ==
    { ".java", ".go", ".py", ".c", ".cpp", ".cs", ".js", ".ts", ".php", ".rb",
      ".groovy", ".rs", ".in", ".jelly", ".inc", ".rh", ".bat" }

\* A filename is the sequence of its directory, its base name and its
\* extension.
FN_parse == <<"src/", "parse", ".c">>
FN_test == <<"src/", "test_parse", ".c">>
FN_Tests == <<"Tests/", "Util", ".java">>
FN_readme == <<"", "README", ".md">>

\* "test" in piece.lower()
LowerHasTest(piece) == piece \in {"test_parse", "Tests/"}

\* BaseAnalyser.is_valid_source_file
is_valid_source_file(filename) ==
    /\ filename[Len(filename)] \in VALID_EXTENSIONS
    /\ ~(\E k \in 1..Len(filename) : LowerHasTest(filename[k]))

\* One file of a commit: its name and whether its patch text is non-empty.
DiffUnit(filename, patch) == [filename |-> filename, patch |-> patch]

DiffUnits == {DiffUnit(f, p) : f \in {FN_parse, FN_test, FN_Tests, FN_readme}, p \in BOOLEAN}

\* The two functions of the model layer.
ModelLayer == {"analyze_patch_with_models", "generate_consensus"}

\* A future of the thread pool of analyze_commit_for_cve: the file, the
\* state of its worker, the functions of the model layer the worker has
\* called and the consensus response it received.
Future(unit) == [unit |-> unit, status |-> "pending", called |-> {}, resp |-> <<>>]

(* ---------------------------------------------------------------------- *)
(* vex_format: the CVSS rating of the NVD record                          *)
(* ---------------------------------------------------------------------- *)
\* A vectorString is the sequence of its parts between the "/" characters:
\* "CVSS:3.1/AV:N/AC:L" is <<"CVSS:3.1", "AV:N", "AC:L">>.
VectorStrings ==
    { <<"CVSS:3.1", "AV:N", "AC:L">>, <<"CVSS:3.0", "AV:L">>, <<"CVSS:3.1">>,
      <<"AV:N", "AC:L", "Au:N">>, <<"AV:L", "AC:H">> }

\* One entry of metrics["cvssMetricV31"] or metrics["cvssMetricV2"]:
\* cvssData.vectorString, cvssData.baseScore, cvssData.baseSeverity and the
\* baseSeverity of the entry itself; "" stands for a missing key.
CvssMetric(vs, score, dataSeverity, severity) ==
    [vectorString |-> vs, baseScore |-> score, dataSeverity |-> dataSeverity,
     baseSeverity |-> severity]

\* The value of a key of metrics: absent, or a list whose first entry is m.
NoMetric == <<>>

\* self.vuln.get("metrics", {})
Metrics(v31, v2) == [cvssMetricV31 |-> v31, cvssMetricV2 |-> v2]

NoMetrics == Metrics(NoMetric, NoMetric)

\* str.lower() on the severities of NVD
SeverityLower(sev) ==
    CASE sev = "HIGH" -> "high"
      [] sev = "MEDIUM" -> "medium"
      [] OTHER -> sev

\* Mutation of extract_cvss: cvssMetricV2 is looked at first.
extract_cvss_v2_first(metrics) ==
    IF metrics.cvssMetricV2 # NoMetric
    THEN LET m == metrics.cvssMetricV2[1]
         IN [score |-> m.baseScore, severity |-> SeverityLower(m.baseSeverity),
             vector |-> m.vectorString, method |-> "CVSS:2.0"]
    ELSE IF metrics.cvssMetricV31 # NoMetric
    THEN LET m == metrics.cvssMetricV31[1]
         IN [score |-> m.baseScore, severity |-> SeverityLower(m.dataSeverity),
             vector |-> Tail(m.vectorString), method |-> m.vectorString[1]]
    ELSE [score |-> "", severity |-> "", vector |-> <<>>, method |-> ""]

\* VEXBuilder.extract_cvss: with cvssMetricV31 the method is the part of the
\* vector string before its first "/" and the vector is what follows it;
\* with cvssMetricV2 alone the method is the constant "CVSS:2.0" and the
\* vector is the whole vector string.
extract_cvss(metrics) ==
    IF metrics.cvssMetricV31 # NoMetric
    THEN LET m == metrics.cvssMetricV31[1]
         IN [score |-> m.baseScore, severity |-> SeverityLower(m.dataSeverity),
             vector |-> Tail(m.vectorString), method |-> m.vectorString[1]]
    ELSE IF metrics.cvssMetricV2 # NoMetric
    THEN LET m == metrics.cvssMetricV2[1]
         IN [score |-> m.baseScore, severity |-> SeverityLower(m.baseSeverity),
             vector |-> m.vectorString, method |-> "CVSS:2.0"]
    ELSE [score |-> "", severity |-> "", vector |-> <<>>, method |-> ""]

(* ---------------------------------------------------------------------- *)
(* The state of a run outside the classifier and link discovery           *)
(* ---------------------------------------------------------------------- *)
NoWork ==
    [bucket |-> "", url |-> NoUrl, source |-> "", analyser |-> "",
     commits |-> <<>>, commit |-> NoUrl]

EmptyFile == [state |-> "empty", doc |-> NoneVal]

\* The output file before run() has opened it.
AbsentFile == [state |-> "absent", doc |-> NoneVal]

\* The input file: unreadable, not JSON, or a JSON object with the fields
\* purl, repo and cve, each of which may be missing.
InputFile(kind, purl, repo, cve) ==
    [kind |-> kind, purl |-> purl, repo |-> repo, cve |-> cve]

NoInput == InputFile("none", NoneStr, NoUrl, NoneStr)

NoTask == [purl |-> NoneStr, cve_id |-> NoneStr, ecosystem |-> NoneStr]

\* The task the analysers work for once the input is validated.
FullTask == [purl |-> Purl, cve_id |-> CveId, ecosystem |-> "npm"]

NoRefCall == [cve_id |-> NoneStr, url |-> NoUrl, source |-> NoneStr,
              done |-> FALSE, result |-> NoUrl]

\* No call of extract_cvss under way.
NoCvssCall ==
    [metrics |-> NoMetrics, done |-> FALSE,
     result |-> [score |-> "", severity |-> "", vector |-> <<>>, method |-> ""]]

\* The model layer before analyze_patch_with_models is called; peak is the
\* largest number of model calls that were in flight together.
IdleLlm ==
    [phase |-> "idle", filename |-> <<>>, issued |-> 0, in_flight |-> 0, peak |-> 0,
     prompts |-> <<>>, outputs |-> <<>>, consensus_calls |-> 0, messages |-> <<>>]

IdleCalls == cvss_call = NoCvssCall /\ llm = IdleLlm

IdleTask ==
    /\ input_file = NoInput
    /\ task = NoTask
    /\ logged = {}
    /\ finished = <<>>
    /\ ref_call = NoRefCall
    /\ IdleCalls

\* The aggregate before extract_and_build_output ran, and the value None it
\* has when the store could not be parsed.
NoContent == [ok |-> FALSE, commits |-> <<>>]

NotRead == [read |-> FALSE, entries |-> <<>>]

IdleRun ==
    /\ pc = "idle"
    /\ repo_url = NoUrl
    /\ url_to_source = <<>>
    /\ cursor = 1
    /\ handed = <<>>
    /\ work = NoWork
    /\ files = <<>>
    /\ store = <<>>
    /\ main_raised = FALSE
    /\ assembly_in = NotRead
    /\ output_content = NoContent
    /\ out_file = EmptyFile
    /\ write_calls = <<>>
    /\ IdleTask

(* ---------------------------------------------------------------------- *)
(* Specification of the classifier alone                                  *)
(* ---------------------------------------------------------------------- *)
IdleClassify ==
    /\ urls = <<>>
    /\ classifier = NewClassifier
    /\ buckets = NoneVal
    /\ classify_calls = 0

IdleLinks ==
    /\ src_out = NoneVal
    /\ discovery = "none"
    /\ queried = {}
    /\ raw_links = <<>>

InitClassify ==
    /\ urls \in SeqsUpTo(URLS, MaxLinks)
    /\ classifier = NewClassifier
    /\ buckets = NoneVal
    /\ classify_calls = 0
    /\ IdleLinks
    /\ IdleRun

\* One call classifier.classify(urls) on the same object.
ClassifyCall ==
    /\ classify_calls < MaxCalls
    /\ classifier' = classify(classifier, urls)
    /\ buckets' = classifier'
    /\ classify_calls' = classify_calls + 1
    /\ UNCHANGED <<urls, linkVars, runVars>>

NextClassify == ClassifyCall

SpecClassify == InitClassify /\ [][NextClassify]_vars

(* ---------------------------------------------------------------------- *)
(* Specification of link discovery alone                                  *)
(* ---------------------------------------------------------------------- *)
SourceOutcomes ==
    [NVD : UniqueAnswers(LinkURLs, MaxSourceLinks),
     OSV : UniqueAnswers(LinkURLs, MaxSourceLinks),
     Debian : UniqueAnswers(LinkURLs, MaxSourceLinks),
     WebSearch : AnyAnswers(LinkURLs, MaxSourceLinks)]

InitLinks == IdleClassify /\ IdleLinks /\ IdleRun

\* One call link_manager.combine_and_extract_unique_links(cve_id, ecosystem).
CombineCall ==
    /\ discovery = "none"
    /\ \E out \in SourceOutcomes :
          LET r == combine_and_extract_unique_links(out)
          IN /\ src_out' = out
             /\ discovery' = IF r.raised THEN "raised" ELSE "returned"
             /\ queried' = r.asked
             /\ raw_links' = r.links
    /\ UNCHANGED <<classVars, runVars>>

NextLinks == CombineCall

SpecLinks == InitLinks /\ [][NextLinks]_vars


(* ---------------------------------------------------------------------- *)
(* MainProcessor.run and the processors                                   *)
(* ---------------------------------------------------------------------- *)
\* The answers of the sources in a whole run.
RunURLs == {U_bitbucket_repo, U_commit, U_gitlab, U_sourceware, U_tag}

RunOutcomes ==
    {out \in [SourceSet -> UniqueAnswers(RunURLs, 1)] :
        Cardinality({src \in SourceSet : out[src].urls # <<>>}) <= MaxRunLinks}

RepoChoices == {NoUrl, U_repo, U_bitbucket_repo}

RECURSIVE dict_of(_, _, _)
\* {entry["url"]: entry["source"] for entry in raw_links}: a key that is
\* already present keeps its place and takes the new value.
dict_of(entries, i, d) ==
    IF i > Len(entries) THEN d
    ELSE LET at == {k \in 1..Len(d) : d[k].url = entries[i].url}
         IN dict_of(entries, i + 1,
                IF at = {} THEN Append(d, entries[i])
                ELSE [d EXCEPT ![CHOOSE k \in at : TRUE].source = entries[i].source])

\* url_to_source.get(url, default)
dict_get(d, url, default) ==
    LET at == {k \in 1..Len(d) : d[k].url = url}
    IN IF at = {} THEN default ELSE d[CHOOSE k \in at : TRUE].source

\* Mutation of ProcessedBuckets: the commit loop comes before the others.
ProcessedBuckets_commit_first ==
    <<"commit", "bitbucket", "sourceware", "gitlab", "pull", "issues", "patch">>

\* The buckets MainProcessor.run loops over, in the order of its loops.
ProcessedBuckets ==
    <<"bitbucket", "sourceware", "gitlab", "commit", "pull", "issues", "patch">>

\* The URLs of the seven loops in the order in which run reaches them.
DispatchList(b) ==
    LET cat[k \in 0..Len(ProcessedBuckets)] ==
            IF k = 0 THEN <<>>
            ELSE cat[k - 1]
                 \o [i \in 1..Len(b[ProcessedBuckets[k]]) |->
                        [bucket |-> ProcessedBuckets[k], url |-> b[ProcessedBuckets[k]][i]]]
    IN cat[Len(ProcessedBuckets)]

\* The analyser class each processor holds.
AnalyserOf(bucket) ==
    IF bucket = "gitlab" THEN "gitlab"
    ELSE IF bucket = "sourceware" THEN "sourceware"
    ELSE "github"

\* A commit URL built by a processor: https://github.com/{owner}/{repo}/commit/{sha}
DerivedCommits == {U_commit, U_commit_fork}

\* The input files of a run: unreadable, not JSON, the empty object, and
\* objects that lack purl, repo or cve or whose purl has no ":".
RunInputs ==
    { InputFile("unreadable", NoneStr, NoUrl, NoneStr),
      InputFile("invalid", NoneStr, NoUrl, NoneStr),
      InputFile("record", NoneStr, NoUrl, NoneStr),
      InputFile("record", NoneStr, U_repo, CveId),
      InputFile("record", Purl, U_repo, NoneStr),
      InputFile("record", "foo", U_repo, CveId) }
    \cup {InputFile("record", Purl, repo, CveId) : repo \in RepoChoices}

\* load_single_entry: the parsed object, or None with a logged exception.
load_single_entry(file) ==
    IF file.kind = "unreadable"
    THEN [is_none |-> TRUE, purl |-> NoneStr, repo |-> NoUrl, cve |-> NoneStr,
          logged |-> {"Failed to read"}]
    ELSE IF file.kind = "invalid"
    THEN [is_none |-> TRUE, purl |-> NoneStr, repo |-> NoUrl, cve |-> NoneStr,
          logged |-> {"Failed to parse JSON"}]
    ELSE [is_none |-> FALSE, purl |-> file.purl, repo |-> file.repo, cve |-> file.cve,
          logged |-> {}]

\* pkg_name.split(":", 1)[1].split("/", 1)[0]: None has no split
\* (AttributeError, not caught), a name without ":" gives IndexError, which
\* is caught and logged.
extract_ecosystem(pkg_name) ==
    IF pkg_name = NoneStr
    THEN [raised |-> TRUE, value |-> NoneStr, logged |-> {}]
    ELSE IF pkg_name = "pkg:npm/foo"
    THEN [raised |-> FALSE, value |-> "npm", logged |-> {}]
    ELSE [raised |-> FALSE, value |-> NoneStr, logged |-> {"Invalid package format"}]

\* Mutation of validate_and_extract_fields: a pkg_entry of None gives four
\* None values.
validate_and_extract_fields_none_ok(pkg_entry) ==
    IF pkg_entry.is_none
    THEN [raised |-> FALSE, purl |-> NoneStr, repo_url |-> NoUrl, cve_id |-> NoneStr,
          ecosystem |-> NoneStr, logged |-> {}]
    ELSE [raised |-> extract_ecosystem(pkg_entry.purl).raised, purl |-> pkg_entry.purl,
          repo_url |-> pkg_entry.repo, cve_id |-> pkg_entry.cve,
          ecosystem |-> extract_ecosystem(pkg_entry.purl).value,
          logged |-> extract_ecosystem(pkg_entry.purl).logged]

\* validate_and_extract_fields: pkg_entry.get on None raises AttributeError.
validate_and_extract_fields(pkg_entry) ==
    IF pkg_entry.is_none
    THEN [raised |-> TRUE, purl |-> NoneStr, repo_url |-> NoUrl, cve_id |-> NoneStr,
          ecosystem |-> NoneStr, logged |-> {}]
    ELSE LET missing == IF \/ pkg_entry.purl = NoneStr
                           \/ pkg_entry.repo = NoUrl
                           \/ pkg_entry.cve = NoneStr
                        THEN {"Missing required fields in input JSON"} ELSE {}
             eco == extract_ecosystem(pkg_entry.purl)
         IN [raised |-> eco.raised, purl |-> pkg_entry.purl,
             repo_url |-> pkg_entry.repo, cve_id |-> pkg_entry.cve,
             ecosystem |-> eco.value, logged |-> missing \cup eco.logged]

InitRunWith(Inputs) ==
    /\ IdleClassify
    /\ IdleLinks
    /\ pc = "load"
    /\ input_file \in Inputs
    /\ task = NoTask
    /\ logged = {}
    /\ finished = <<>>
    /\ ref_call = NoRefCall
    /\ IdleCalls
    /\ write_calls = <<>>
    /\ repo_url = NoUrl
    /\ url_to_source = <<>>
    /\ cursor = 1
    /\ handed = <<>>
    /\ work = NoWork
    /\ files = <<>>
    /\ store = <<>>
    /\ main_raised = FALSE
    /\ assembly_in = NotRead
    /\ output_content = NoContent
    /\ out_file = AbsentFile

InitRun == InitRunWith(RunInputs)

\* run() of main.py up to the call of run_main_processor: the input is
\* loaded and validated and the output file is truncated.  An exception of
\* validate_and_extract_fields ends run().
LoadInput ==
    /\ pc = "load"
    /\ LET pkg_entry == load_single_entry(input_file)
           v == validate_and_extract_fields(pkg_entry)
       IN /\ logged' = logged \cup pkg_entry.logged \cup v.logged
          /\ IF v.raised
             THEN /\ pc' = "aborted"
                  /\ UNCHANGED <<task, repo_url, out_file>>
             ELSE /\ task' = [purl |-> v.purl, cve_id |-> v.cve_id,
                              ecosystem |-> v.ecosystem]
                  /\ repo_url' = v.repo_url
                  /\ out_file' = EmptyFile
                  /\ pc' = "main"
    /\ UNCHANGED <<input_file, finished, ref_call, callVars, write_calls, classVars, linkVars,
                   url_to_source, cursor, handed, work, files, store, main_raised,
                   assembly_in, output_content>>

\* run() is called again in the same process for another task.  Its
\* locals, MainProcessor and URLClassifier are new objects;
\* ConsensusStore._data is a class attribute that nothing clears.
NextTaskWith(Inputs) ==
    /\ pc = "done"
    /\ Len(finished) + 1 < MaxTasks
    /\ finished' = Append(finished, Len(store))
    /\ input_file' \in Inputs
    /\ pc' = "load"
    /\ task' = NoTask
    /\ logged' = {}
    /\ repo_url' = NoUrl
    /\ url_to_source' = <<>>
    /\ cursor' = 1
    /\ handed' = <<>>
    /\ work' = NoWork
    /\ files' = <<>>
    /\ main_raised' = FALSE
    /\ assembly_in' = NotRead
    /\ output_content' = NoContent
    /\ urls' = <<>>
    /\ classifier' = NewClassifier
    /\ buckets' = NoneVal
    /\ classify_calls' = 0
    /\ src_out' = NoneVal
    /\ discovery' = "none"
    /\ queried' = {}
    /\ raw_links' = <<>>
    /\ UNCHANGED <<store, out_file, ref_call, callVars, write_calls>>

\* run_main_processor: MainProcessor() and the head of MainProcessor.run,
\* from link discovery to classify.
RunMainWith(Outcomes) ==
    /\ pc = "main"
    /\ \E out \in Outcomes :
          LET r == combine_and_extract_unique_links(out)
              all_links == IF repo_url # NoUrl
                           THEN Append(r.links, [url |-> repo_url, source |-> "Manual Input"])
                           ELSE r.links
              d == dict_of(all_links, 1, <<>>)
              keys == [k \in 1..Len(d) |-> d[k].url]
          IN /\ queried' = r.asked
             /\ raw_links' = r.links
             /\ IF r.raised
                THEN /\ discovery' = "raised"
                     /\ main_raised' = TRUE
                     /\ pc' = "build"
                     /\ UNCHANGED <<url_to_source, urls, classifier, buckets, classify_calls>>
                ELSE /\ discovery' = "returned"
                     /\ url_to_source' = d
                     /\ urls' = keys
                     /\ classifier' = classify(NewClassifier, keys)
                     /\ buckets' = classifier'
                     /\ classify_calls' = 1
                     /\ pc' = "dispatch"
                     /\ UNCHANGED main_raised
    /\ write_calls' = <<>>
    /\ UNCHANGED <<taskVars, src_out, repo_url, cursor, handed, work, files,
                   store, assembly_in, output_content, out_file>>

RunMain == RunMainWith(RunOutcomes)

\* The next process(url, cve_id, source) call of the bucket loops, up to the
\* point where the processor knows which commits it analyses.  The pull,
\* issues and patch processors get their commits from the network.
StartUrl ==
    /\ pc = "dispatch"
    /\ cursor <= Len(DispatchList(buckets))
    /\ LET item == DispatchList(buckets)[cursor]
           source == dict_get(url_to_source, item.url, "Unknown")
           w == [NoWork EXCEPT !.bucket = item.bucket, !.url = item.url,
                               !.source = source,
                               !.analyser = AnalyserOf(item.bucket)]
       IN /\ handed' = Append(handed, [bucket |-> item.bucket, url |-> item.url,
                                       source |-> source])
          /\ \/ /\ item.bucket \in {"sourceware", "gitlab", "commit"}
                /\ work' = [w EXCEPT !.commits = <<item.url>>]
                /\ pc' = "url"
                /\ UNCHANGED main_raised
             \/ /\ item.bucket = "bitbucket"
                /\ work' = [w EXCEPT !.commits =
                               IF Contains(item.url, "/commits/") THEN <<item.url>> ELSE <<>>]
                /\ pc' = "url"
                /\ UNCHANGED main_raised
             \/ /\ item.bucket \in {"pull", "issues", "patch"}
                /\ \E cs \in UniqueSeqsUpTo(DerivedCommits, MaxCommits) :
                      work' = [w EXCEPT !.commits = cs]
                /\ pc' = "url"
                /\ UNCHANGED main_raised
             \/ \* PatchProcessor.process: the search call fails or finds no
                \* release URL; nothing catches the exception.
                /\ item.bucket = "patch"
                /\ work' = NoWork
                /\ main_raised' = TRUE
                /\ pc' = "build"
    /\ UNCHANGED <<write_calls, taskVars, classVars, linkVars, repo_url, url_to_source, cursor, files,
                   store, assembly_in, output_content, out_file>>

\* Mutation of AfterRaise: no processor catches the exception.
AfterRaise_uncaught(w) == "propagate"

\* What the processor of the bucket does when analyze_commit_for_cve raises:
\* CommitProcessor and PatchProcessor let the exception through,
\* IssuesProcessor catches it per commit, the others end the URL.
AfterRaise(w) ==
    IF w.bucket \in {"commit", "patch"} THEN "propagate"
    ELSE IF w.bucket = "issues" THEN "next_commit"
    ELSE "end_url"

\* The analyser of the current commit returned (how = "returned") or raised.
CommitEnds(how) ==
    /\ files' = <<>>
    /\ IF how = "returned" \/ AfterRaise(work) = "next_commit"
       THEN /\ work' = [work EXCEPT !.commits = Tail(@), !.commit = NoUrl]
            /\ pc' = "url"
            /\ UNCHANGED main_raised
       ELSE IF AfterRaise(work) = "end_url"
       THEN /\ work' = [work EXCEPT !.commits = <<>>, !.commit = NoUrl]
            /\ pc' = "url"
            /\ UNCHANGED main_raised
       ELSE /\ work' = NoWork
            /\ main_raised' = TRUE
            /\ pc' = "build"

\* Mutation of Submitted: GitHubAnalyzer submits every file of the commit.
Submitted_unfiltered(analyser, units) == units

\* The files the analyser submits to its pool: GitHubAnalyzer submits only
\* the files that pass get_security_critical_files, the others submit all.
Submitted(analyser, units) ==
    IF analyser = "github"
    THEN SelectSeq(units, LAMBDA u : is_valid_source_file(u.filename))
    ELSE units

\* analyze_commit_for_cve up to the submission of the files: the analyser
\* returns [] early (no token, no data, no file), get_cve_description
\* raises, or the files go to the pool.
StartCommitWith(Units, n) ==
    /\ pc = "url"
    /\ work.commits # <<>>
    /\ work.commit = NoUrl
    /\ files = <<>>
    /\ \/ CommitEnds("returned")
       \/ \E units \in SeqsUpTo(Units, n) :
             /\ Submitted(work.analyser, units) # <<>>
             /\ \/ CommitEnds("raised")
                \/ /\ work' = [work EXCEPT !.commit = Head(work.commits)]
                   /\ files' = [k \in 1..Len(Submitted(work.analyser, units)) |->
                                   Future(Submitted(work.analyser, units)[k])]
                   /\ pc' = "commit"
                   /\ UNCHANGED main_raised
    /\ UNCHANGED <<write_calls, taskVars, classVars, linkVars, repo_url, url_to_source, cursor, handed,
                   store, assembly_in, output_content, out_file>>

\* Mutation of SkipsUnit: the patch text is not looked at.
SkipsUnit_ignores_patch(analyser, unit) ==
    IF analyser = "github" THEN FALSE
    ELSE ~is_valid_source_file(unit.filename)

\* Whether process_file / process_diff_page hands the unit to the model
\* layer.  SourcewareAnalyser never does: sourceware_analyser.py does not
\* import importlib, so the lookup of analyze_patch_with_models raises
\* NameError for every block that passes the filter.
SkipsUnit(analyser, unit) ==
    IF analyser = "github" THEN ~unit.patch
    ELSE IF analyser = "gitlab" THEN ~is_valid_source_file(unit.filename) \/ ~unit.patch
    ELSE ~is_valid_source_file(unit.filename)

\* One worker of the pool runs process_file for its file.  A unit that
\* reaches the model layer gets the consensus response resp, or a model
\* call raises.
ProcessFileWith(Resps) ==
    /\ pc = "commit"
    /\ \E k \in 1..Len(files) :
          /\ files[k].status = "pending"
          /\ IF SkipsUnit(work.analyser, files[k].unit)
             THEN /\ files' = [files EXCEPT ![k].status = "none"]
                  /\ UNCHANGED store
             ELSE IF work.analyser = "sourceware"
             THEN \* the diff page cannot be fetched, or the block is reached
                  /\ \E st \in {"none", "raised"} :
                        files' = [files EXCEPT ![k].status = st]
                  /\ UNCHANGED store
             ELSE \/ \* analyze_patch_with_models or generate_consensus raises
                     /\ \E fns \in {{"analyze_patch_with_models"}, ModelLayer} :
                           files' = [files EXCEPT ![k].status = "raised",
                                                  ![k].called = fns]
                     /\ UNCHANGED store
                  \/ \E resp \in Resps :
                        LET consensus_json == extract_clean_json(resp)
                        IN IF accepts(consensus_json)
                           THEN /\ store' = ConsensusStore_add(store,
                                       consensus_entry(work.commit, consensus_json,
                                                       task.cve_id, work.source))
                                /\ files' = [files EXCEPT ![k].status = "result",
                                                          ![k].called = ModelLayer,
                                                          ![k].resp = resp]
                           ELSE /\ files' = [files EXCEPT ![k].status = "none",
                                                          ![k].called = ModelLayer,
                                                          ![k].resp = resp]
                                /\ UNCHANGED store
    /\ UNCHANGED <<write_calls, taskVars, classVars, linkVars, pc, repo_url, url_to_source, cursor,
                   handed, work, main_raised, assembly_in, output_content, out_file>>

\* BaseAnalyser.write_to_output(url, final_results, "output.txt"): the call
\* and the number of results it is given; nothing is written for none.
write_to_output(url, futures) ==
    [url |-> url,
     results |-> Cardinality({k \in 1..Len(futures) : futures[k].status = "result"})]

\* Mutation of JoinCommit: future.result() re-raises the exception of a
\* worker and the analyser leaves without waiting for the other workers.
JoinCommit_no_wait ==
    /\ pc = "commit"
    /\ \/ \A k \in 1..Len(files) : files[k].status # "pending"
       \/ \E k \in 1..Len(files) : files[k].status = "raised"
    /\ IF \/ \E k \in 1..Len(files) : files[k].status = "raised"
          \/ work.analyser = "sourceware"
       THEN CommitEnds("raised") /\ UNCHANGED write_calls
       ELSE /\ CommitEnds("returned")
            /\ write_calls' = Append(write_calls, write_to_output(work.commit, files))
    /\ UNCHANGED <<taskVars, classVars, linkVars, repo_url, url_to_source, cursor, handed,
                   store, assembly_in, output_content, out_file>>

\* The with block of analyze_commit_for_cve ends when every worker has
\* finished; future.result() re-raises the exception of a worker.
\* SourcewareAnalyser then calls write_to_output without its path argument,
\* which raises TypeError.
JoinCommit ==
    /\ pc = "commit"
    /\ \A k \in 1..Len(files) : files[k].status # "pending"
    /\ IF \/ \E k \in 1..Len(files) : files[k].status = "raised"
          \/ work.analyser = "sourceware"
       THEN CommitEnds("raised") /\ UNCHANGED write_calls
       ELSE /\ CommitEnds("returned")
            /\ write_calls' = Append(write_calls, write_to_output(work.commit, files))
    /\ UNCHANGED <<taskVars, classVars, linkVars, repo_url, url_to_source, cursor, handed,
                   store, assembly_in, output_content, out_file>>

\* process() returns and the bucket loop goes on.
EndUrl ==
    /\ pc = "url"
    /\ work.commits = <<>>
    /\ work' = NoWork
    /\ cursor' = cursor + 1
    /\ pc' = "dispatch"
    /\ UNCHANGED <<write_calls, taskVars, classVars, linkVars, repo_url, url_to_source, handed, files,
                   store, main_raised, assembly_in, output_content, out_file>>

\* MainProcessor.run returns after the last loop.
EndMain ==
    /\ pc = "dispatch"
    /\ cursor > Len(DispatchList(buckets))
    /\ pc' = "build"
    /\ UNCHANGED <<write_calls, taskVars, classVars, linkVars, repo_url, url_to_source, cursor, handed,
                   work, files, store, main_raised, assembly_in, output_content,
                   out_file>>

(* ---------------------------------------------------------------------- *)
(* Output assembly                                                        *)
(* ---------------------------------------------------------------------- *)
\* What the NVD API lookup of VEXBuilder meets: no NVD_API_KEY in the
\* environment, a failed request, an answer without vulnerability, a
\* vulnerability without its dates, or a complete vulnerability.
NvdOutcomes == {"no_key", "request_failed", "no_vulnerability", "no_dates", "ok"}

\* VEXBuilder.__init__ and build_json raise for every outcome but "ok":
\* os.environ["NVD_API_KEY"] is read outside the try of get_entire_info,
\* {}["vulnerabilities"] and [][0] raise in __init__, and parse_date("")
\* raises in build_json.
vex_builder_raises(nvd) == nvd # "ok"

\* VEXBuilder.build_json
build_json(cve_id, pkg, content) ==
    [cve |-> cve_id, package |-> pkg, root_cause_functions |-> content,
     vex |-> [sources |-> 3, ratings |-> 1, cwes |-> <<>>, description |-> "",
              detail |-> "", recommendation |-> "", references |-> 3,
              advisories |-> <<>>, created |-> "date", published |-> "date",
              updated |-> "date", credits |-> ""]]

\* Mutation of BuildOutput: only the entries of the commits whose analysis
\* returned (write_to_output was called) are read back.
BuildOutput_drops_failed_commits ==
    LET kept == SelectSeq(store, LAMBDA e :
                    \E k \in 1..Len(write_calls) : write_calls[k].url = e[1].val)
    IN /\ pc = "build"
       /\ assembly_in' = [read |-> TRUE, entries |-> kept]
       /\ output_content' = output_content_of(kept, repo_url)
       /\ \E nvd \in NvdOutcomes :
             IF vex_builder_raises(nvd)
             THEN pc' = "crashed" /\ UNCHANGED out_file
             ELSE /\ pc' = "write"
                  /\ UNCHANGED out_file
       /\ UNCHANGED <<write_calls, taskVars, classVars, linkVars, repo_url, url_to_source,
                      cursor, handed, work, files, store, main_raised>>

\* extract_and_build_output, called by run() after the try around
\* run_main_processor.  An exception of VEXBuilder is not caught by run().
BuildOutput ==
    /\ pc = "build"
    /\ assembly_in' = [read |-> TRUE, entries |-> store]
    /\ output_content' = output_content_of(store, repo_url)
    /\ \E nvd \in NvdOutcomes :
          IF vex_builder_raises(nvd)
          THEN pc' = "crashed" /\ UNCHANGED out_file
          ELSE /\ pc' = "write"
               /\ UNCHANGED out_file
    /\ UNCHANGED <<write_calls, taskVars, classVars, linkVars, repo_url, url_to_source, cursor, handed,
                   work, files, store, main_raised>>

\* write_output
WriteOutput ==
    /\ pc = "write"
    /\ out_file' = [state |-> "json",
                     doc |-> build_json(task.cve_id, task.purl, output_content)]
    /\ pc' = "done"
    /\ UNCHANGED <<write_calls, taskVars, classVars, linkVars, repo_url, url_to_source, cursor, handed,
                   work, files, store, main_raised, assembly_in, output_content>>

\* The consensus responses and the files of a whole run.
RunResponses == {<<S_text>>, <<S_text, S_one, S_text>>, <<S_canonical>>}

RunUnits == {DiffUnit(FN_parse, TRUE), DiffUnit(FN_parse, FALSE), DiffUnit(FN_test, TRUE)}

Next ==
    \/ LoadInput
    \/ RunMain
    \/ StartUrl
    \/ StartCommitWith(RunUnits, MaxRunFiles)
    \/ ProcessFileWith(RunResponses)
    \/ JoinCommit
    \/ EndUrl
    \/ EndMain
    \/ BuildOutput
    \/ WriteOutput

Spec == InitRun /\ [][Next]_vars

(* ---------------------------------------------------------------------- *)
(* Specification of several tasks run in one process                      *)
(* ---------------------------------------------------------------------- *)
TaskInputs == {InputFile("record", Purl, U_repo, cve) : cve \in {CveId, "CVE-2024-0002"}}

\* Only NVD answers, with the commit of the repository or with nothing.
TaskOutcomes ==
    {out \in RunOutcomes :
        /\ \A src \in SourceSet : out[src].ok
        /\ \A src \in SourceSet \ {"NVD"} : out[src].urls = <<>>
        /\ out["NVD"].urls \in {<<>>, <<U_commit>>}}

TaskUnits == {DiffUnit(FN_parse, TRUE)}

TaskResponses == {<<S_text>>, <<S_canonical>>}

InitTasks == InitRunWith(TaskInputs)

NextTasks ==
    \/ LoadInput
    \/ RunMainWith(TaskOutcomes)
    \/ StartUrl
    \/ StartCommitWith(TaskUnits, 1)
    \/ ProcessFileWith(TaskResponses)
    \/ JoinCommit
    \/ EndUrl
    \/ EndMain
    \/ BuildOutput
    \/ WriteOutput
    \/ NextTaskWith(TaskInputs)

SpecTasks == InitTasks /\ [][NextTasks]_vars

(* ---------------------------------------------------------------------- *)
(* Specification of the bucket loops over URLs of every bucket            *)
(* ---------------------------------------------------------------------- *)
DispatchURLs ==
    { U_bitbucket, U_sourceware, U_gitlab, U_commit, U_commit_fork, U_pull,
      U_issues, U_tag, U_other }

\* NVD answers with up to MaxLinks URLs in any order, the other sources
\* with nothing.
DispatchOutcomes ==
    { [src \in SourceSet |-> IF src = "NVD" THEN Answer(q) ELSE Answer(<<>>)] :
        q \in UniqueSeqsUpTo(DispatchURLs, MaxLinks) }

DispatchInputs == {InputFile("record", Purl, U_repo, CveId)}

DispatchUnits == {DiffUnit(FN_parse, TRUE)}

DispatchResponses == {<<S_canonical>>}

InitDispatch == InitRunWith(DispatchInputs)

NextDispatch ==
    \/ LoadInput
    \/ RunMainWith(DispatchOutcomes)
    \/ StartUrl
    \/ StartCommitWith(DispatchUnits, 1)
    \/ ProcessFileWith(DispatchResponses)
    \/ JoinCommit
    \/ EndUrl
    \/ EndMain

SpecDispatch == InitDispatch /\ [][NextDispatch]_vars

(* ---------------------------------------------------------------------- *)
(* Specification of a run that finds one URL whose commits have several   *)
(* files                                                                  *)
(* ---------------------------------------------------------------------- *)
PoolURLs == {U_commit, U_gitlab, U_sourceware, U_issues}

PoolOutcomes ==
    { [src \in SourceSet |-> IF src = "NVD" THEN Answer(<<u>>) ELSE Answer(<<>>)] :
        u \in PoolURLs }

PoolInputs == {InputFile("record", Purl, NoUrl, CveId)}

PoolUnits == {DiffUnit(FN_parse, TRUE), DiffUnit(FN_Tests, TRUE)}

PoolResponses == {<<S_text>>, <<S_canonical>>, <<S_text, S_one>>}

InitPool == InitRunWith(PoolInputs)

NextPool ==
    \/ LoadInput
    \/ RunMainWith(PoolOutcomes)
    \/ StartUrl
    \/ StartCommitWith(PoolUnits, MaxFiles)
    \/ ProcessFileWith(PoolResponses)
    \/ JoinCommit
    \/ EndUrl
    \/ EndMain
    \/ BuildOutput
    \/ WriteOutput

SpecPool == InitPool /\ [][NextPool]_vars

(* ---------------------------------------------------------------------- *)
(* Specification of the analysis of one commit                            *)
(* ---------------------------------------------------------------------- *)
AnalyseSegments ==
    { S_text, S_text_brace, S_bad, S_missing, S_string, S_empty, S_one,
      S_array_key }

AnalyseResponses == SeqsUpTo(AnalyseSegments, MaxSegments)

AnalyseUnits ==
    { DiffUnit(FN_parse, TRUE), DiffUnit(FN_parse, FALSE),
      DiffUnit(FN_Tests, TRUE), DiffUnit(FN_readme, TRUE) }

\* The commit each analyser is given.
CommitFor(analyser) ==
    IF analyser = "gitlab" THEN U_gitlab
    ELSE IF analyser = "sourceware" THEN U_sourceware
    ELSE U_commit

BucketFor(analyser) == IF analyser = "github" THEN "commit" ELSE analyser

\* An analyser has submitted the files of a commit to its pool.
InitAnalyse ==
    /\ IdleClassify
    /\ IdleLinks
    /\ pc = "commit"
    /\ repo_url = U_repo
    /\ url_to_source = <<>>
    /\ cursor = 1
    /\ handed = <<>>
    /\ \E analyser \in {"github", "gitlab", "sourceware"} :
          /\ work = [bucket |-> BucketFor(analyser), url |-> CommitFor(analyser),
                     source |-> "NVD", analyser |-> analyser,
                     commits |-> <<CommitFor(analyser)>>,
                     commit |-> CommitFor(analyser)]
          /\ \E units \in SeqsUpTo(AnalyseUnits, MaxFiles) :
                /\ Submitted(analyser, units) # <<>>
                /\ files = [k \in 1..Len(Submitted(analyser, units)) |->
                               Future(Submitted(analyser, units)[k])]
    /\ store = <<>>
    /\ main_raised = FALSE
    /\ assembly_in = NotRead
    /\ output_content = NoContent
    /\ out_file = EmptyFile
    /\ input_file = InputFile("record", FullTask.purl, U_repo, FullTask.cve_id)
    /\ task = FullTask
    /\ logged = {}
    /\ finished = <<>>
    /\ ref_call = NoRefCall
    /\ IdleCalls
    /\ write_calls = <<>>

NextAnalyse == ProcessFileWith(AnalyseResponses)

SpecAnalyse == InitAnalyse /\ [][NextAnalyse]_vars

(* ---------------------------------------------------------------------- *)
(* Specification of final assembly over a given store                     *)
(* ---------------------------------------------------------------------- *)
AggCommits == {U_commit, U_commit_fork, U_gitlab, U_sourceware, U_selfhosted}

AggJsons ==
    { JObject("list", <<F_canonical>>),
      JObject("list", <<F_canonical, F_both>>),
      JObject("list", <<F_parseInput>>) }

\* The blocks log_consensus_entry can have appended.
AggBlocks ==
    {consensus_entry(c, j, CveId, "NVD") : c \in AggCommits, j \in AggJsons}

\* run() after run_main_processor, with the store the analysers left.
InitAggregate ==
    /\ IdleClassify
    /\ IdleLinks
    /\ pc = "build"
    /\ repo_url \in {NoUrl, U_repo}
    /\ input_file = InputFile("record", Purl, repo_url, CveId)
    /\ task = FullTask
    /\ logged = IF repo_url = NoUrl
                THEN {"Missing required fields in input JSON"} ELSE {}
    /\ finished = <<>>
    /\ ref_call = NoRefCall
    /\ IdleCalls
    /\ write_calls = <<>>
    /\ url_to_source = <<>>
    /\ cursor = 1
    /\ handed = <<>>
    /\ work = NoWork
    /\ files = <<>>
    /\ store \in SeqsUpTo(AggBlocks, MaxBlocks)
    /\ main_raised = FALSE
    /\ assembly_in = NotRead
    /\ output_content = NoContent
    /\ out_file = EmptyFile

NextAggregate == BuildOutput \/ WriteOutput

SpecAggregate == InitAggregate /\ [][NextAggregate]_vars

(* ---------------------------------------------------------------------- *)
(* Specification of final assembly over the entries of concurrent workers *)
(* ---------------------------------------------------------------------- *)
\* A function a consensus response reports with another package.
F_vendored == Func("decode", <<"bar.decode">>, "bar", "2.0", TRUE)

\* The records the workers of the files of a commit can have stored.
OrderJsons ==
    { JObject("list", <<F_canonical>>),
      JObject("list", <<F_vendored>>),
      JObject("list", <<F_both, F_vendored>>) }

OrderBlocks ==
    {consensus_entry(c, j, CveId, "NVD") : c \in {U_commit, U_gitlab}, j \in OrderJsons}

\* run() after run_main_processor; the workers appended in any order.
InitOrder ==
    /\ IdleClassify
    /\ IdleLinks
    /\ pc = "build"
    /\ repo_url \in {NoUrl, U_repo}
    /\ input_file = InputFile("record", Purl, repo_url, CveId)
    /\ task = FullTask
    /\ logged = IF repo_url = NoUrl
                THEN {"Missing required fields in input JSON"} ELSE {}
    /\ finished = <<>>
    /\ ref_call = NoRefCall
    /\ IdleCalls
    /\ write_calls = <<>>
    /\ url_to_source = <<>>
    /\ cursor = 1
    /\ handed = <<>>
    /\ work = NoWork
    /\ files = <<>>
    /\ store \in SeqsUpTo(OrderBlocks, MaxBlocks)
    /\ main_raised = FALSE
    /\ assembly_in = NotRead
    /\ output_content = NoContent
    /\ out_file = EmptyFile

NextOrder == BuildOutput \/ WriteOutput

SpecOrder == InitOrder /\ [][NextOrder]_vars

(* ---------------------------------------------------------------------- *)
(* Specification of get_reference_url                                     *)
(* ---------------------------------------------------------------------- *)
RefURLs == URLS \cup {U_pages, U_owner}

RefSources ==
    {"NVD", "OSV", "Debian", "sourceware", "gitlab", "Manual Input",
     "WebSearch", "Unknown", NoneStr}

RefCves == {CveId, "CVE-2024-0002"}

InitReference ==
    /\ IdleClassify
    /\ IdleLinks
    /\ pc = "idle"
    /\ repo_url = NoUrl
    /\ url_to_source = <<>>
    /\ cursor = 1
    /\ handed = <<>>
    /\ work = NoWork
    /\ files = <<>>
    /\ store = <<>>
    /\ main_raised = FALSE
    /\ assembly_in = NotRead
    /\ output_content = NoContent
    /\ out_file = EmptyFile
    /\ input_file = NoInput
    /\ task = NoTask
    /\ logged = {}
    /\ finished = <<>>
    /\ \E cve_id \in RefCves, url \in RefURLs, source \in RefSources :
          ref_call = [cve_id |-> cve_id, url |-> url, source |-> source,
                      done |-> FALSE, result |-> NoUrl]
    /\ IdleCalls
    /\ write_calls = <<>>

\* One call get_reference_url(cve_id, url, source).
ReferenceCall ==
    /\ ~ref_call.done
    /\ ref_call' = [ref_call EXCEPT
                       !.done = TRUE,
                       !.result = get_reference_url(ref_call.cve_id, ref_call.url,
                                                    ref_call.source)]
    /\ UNCHANGED <<classVars, linkVars, pc, repo_url, url_to_source, cursor, handed,
                   work, files, store, main_raised, assembly_in, output_content,
                   out_file, input_file, task, logged, finished, callVars,
                   write_calls>>

NextReference == ReferenceCall

SpecReference == InitReference /\ [][NextReference]_vars

\* The run state of a program that only calls a function of a library.
IdleProgram ==
    /\ IdleClassify
    /\ IdleLinks
    /\ pc = "idle"
    /\ repo_url = NoUrl
    /\ url_to_source = <<>>
    /\ cursor = 1
    /\ handed = <<>>
    /\ work = NoWork
    /\ files = <<>>
    /\ store = <<>>
    /\ main_raised = FALSE
    /\ assembly_in = NotRead
    /\ output_content = NoContent
    /\ out_file = EmptyFile
    /\ write_calls = <<>>
    /\ input_file = NoInput
    /\ task = NoTask
    /\ logged = {}
    /\ finished = <<>>
    /\ ref_call = NoRefCall

(* ---------------------------------------------------------------------- *)
(* Specification of extract_cvss                                          *)
(* ---------------------------------------------------------------------- *)
CvssMetrics ==
    { CvssMetric(vs, score, ds, sev) :
        vs \in VectorStrings, score \in {"", "7.5"}, ds \in {"", "HIGH"},
        sev \in {"", "MEDIUM"} }

\* The values of one key of metrics.
CvssLists == {NoMetric} \cup {<<m>> : m \in CvssMetrics}

InitCvss ==
    /\ IdleProgram
    /\ llm = IdleLlm
    /\ \E v31 \in CvssLists, v2 \in CvssLists :
          cvss_call = [NoCvssCall EXCEPT !.metrics = Metrics(v31, v2)]

\* One call extract_cvss() on a VEXBuilder whose vuln holds the metrics.
CvssCall ==
    /\ ~cvss_call.done
    /\ cvss_call' = [cvss_call EXCEPT !.done = TRUE,
                                      !.result = extract_cvss(cvss_call.metrics)]
    /\ UNCHANGED <<classVars, linkVars, pc, repo_url, url_to_source, cursor, handed,
                   work, files, store, main_raised, assembly_in, output_content,
                   out_file, write_calls, input_file, task, logged, finished,
                   ref_call, llm>>

NextCvss == CvssCall

SpecCvss == InitCvss /\ [][NextCvss]_vars

(* ---------------------------------------------------------------------- *)
(* Specification of the model layer for one diff unit                     *)
(* ---------------------------------------------------------------------- *)
\* models = ["anthropic/claude-sonnet-4"] * 6
models == [i \in 1..6 |-> "anthropic/claude-sonnet-4"]

\* get_prompt_messages(description, filename, formatted_code): the text of
\* the prompt is fixed, its three parameters are what can vary.
get_prompt_messages(description, filename, formatted_code) ==
    [description |-> description, filename |-> filename,
     formatted_code |-> formatted_code]

\* The contents a model response can carry.
ModelTexts == {"parseInput is the root cause", "Did not get vulnerability in this file"}

\* What client.chat.completions.create does for one model call: it returns
\* a response with a choice, a response whose choices are empty, or raises.
ModelOutcomes == {"choice", "no_choices", "raises"}

LlmFiles == {FN_parse, FN_Tests}

InitModels ==
    /\ IdleProgram
    /\ cvss_call = NoCvssCall
    /\ \E f \in LlmFiles : llm = [IdleLlm EXCEPT !.filename = f]

LlmUnchanged ==
    UNCHANGED <<classVars, linkVars, pc, repo_url, url_to_source, cursor, handed,
                work, files, store, main_raised, assembly_in, output_content,
                out_file, write_calls, input_file, task, logged, finished,
                ref_call, cvss_call>>

\* analyze_patch_with_models: the loop reaches client.chat.completions.create
\* for the next entry of models.  The loop body is sequential, so the call
\* is made when the one before it has returned.
ModelCallStart ==
    /\ llm.phase \in {"idle", "models"}
    /\ llm.in_flight = 0
    /\ llm.issued < Len(models)
    /\ llm' = [llm EXCEPT
                  !.phase = "models",
                  !.issued = @ + 1,
                  !.in_flight = 1,
                  !.peak = IF @ < 1 THEN 1 ELSE @,
                  !.prompts = Append(@, [model |-> models[llm.issued + 1],
                                         messages |->
                                            get_prompt_messages(CveId, llm.filename,
                                                                "diff")])]
    /\ LlmUnchanged

\* The call returns or raises; its content is appended only
\* `if response.choices`.
ModelCallReturn ==
    /\ llm.phase = "models"
    /\ llm.in_flight = 1
    /\ \E outcome \in ModelOutcomes :
          \/ /\ outcome = "choice"
             /\ \E text \in ModelTexts :
                   llm' = [llm EXCEPT !.in_flight = 0,
                                      !.outputs = Append(@, [run |-> llm.issued,
                                                             text |-> text])]
          \/ /\ outcome = "no_choices"
             /\ llm' = [llm EXCEPT !.in_flight = 0]
          \/ /\ outcome = "raises"
             /\ llm' = [llm EXCEPT !.in_flight = 0, !.phase = "raised"]
    /\ LlmUnchanged

\* generate_consensus: the summary prompt, then one message per output.
ConsensusStart ==
    /\ llm.phase = "models"
    /\ llm.in_flight = 0
    /\ llm.issued = Len(models)
    /\ llm' = [llm EXCEPT
                  !.phase = "consensus",
                  !.consensus_calls = @ + 1,
                  !.messages = <<[idx |-> 0, run |-> 0, text |-> "summary_prompt"]>> \o
                               [k \in 1..Len(llm.outputs) |->
                                   [idx |-> k, run |-> llm.outputs[k].run,
                                    text |-> llm.outputs[k].text]]]
    /\ LlmUnchanged

\* The consensus call returns its content, or it raises (also when the
\* response has no choice: response.choices[0]).
ConsensusReturn ==
    /\ llm.phase = "consensus"
    /\ \E ph \in {"done", "raised"} : llm' = [llm EXCEPT !.phase = ph]
    /\ LlmUnchanged

NextModels == ModelCallStart \/ ModelCallReturn \/ ConsensusStart \/ ConsensusReturn

SpecModels == InitModels /\ [][NextModels]_vars

(* ---------------------------------------------------------------------- *)
(* Claims about the classifier                                            *)
(* ---------------------------------------------------------------------- *)
\* The bucket that holds url in the result of classifying it alone with a
\* fresh classifier.
BucketAlone(url) ==
    CHOOSE b \in BucketSet : Count(classify(NewClassifier, <<url>>)[b], url) = 1

\* Total number of occurrences of url over the nine returned lists.
Placed(url) ==
    LET n[k \in 0..Len(BucketNames)] ==
            IF k = 0 THEN 0 ELSE n[k - 1] + Count(buckets[BucketNames[k]], url)
    IN n[Len(BucketNames)]

\* C1: after classify on a fresh URLClassifier every occurrence of a URL of
\* the input is in exactly one of the nine buckets (as many placements as
\* occurrences, nothing else placed), and the bucket of a URL is the one it
\* gets when classified alone, whatever its position and its neighbours.
C1_ExactlyOneBucket ==
    classify_calls = 1 =>
        /\ \A u \in URLS : Placed(u) = Count(urls, u)
        /\ \A u \in Range(urls) :
              /\ Cardinality({b \in BucketSet : u \in Range(buckets[b])}) = 1
              /\ Count(buckets[BucketAlone(u)], u) = Count(urls, u)

C1_Witness ==
    /\ classify_calls = 1
    /\ Len(urls) = 3
    /\ urls[1] = urls[3]
    /\ urls[1] # urls[2]
    /\ Count(buckets["commit"], urls[1]) = 2

\* The condition of rule k of the classifier, taken by itself.
RuleMatches(k, u) ==
    CASE k = 1 -> Contains(u, "bitbucket")
      [] k = 2 -> /\ Contains(u, "sourceware.org")
                  /\ \E m \in {"commitdiff", "blobdiff", ";h="} : Contains(u, m)
      [] k = 3 -> Contains(u, "gitlab.com") /\ Contains(u, "/-/commit")
      [] k = 4 -> Contains(u, "/commit") /\ ~Contains(u, "redhat") /\ ~Contains(u, "netapp")
      [] k = 5 -> Contains(u, "/pull") /\ ~Contains(u, "redhat") /\ ~Contains(u, "netapp")
      [] k = 6 -> Contains(u, "/issues") /\ ~Contains(u, "redhat") /\ ~Contains(u, "netapp")
      [] k = 7 -> Contains(u, "/security/advisories") \/ Contains(u, "/tag")
      [] k = 8 -> /\ Contains(u, "github")
                  /\ \A m \in {"/commit", "/pull", "/issues", "/security/advisories", "/tag"} :
                        ~Contains(u, m)
      [] OTHER -> TRUE

EarliestRule(u) ==
    CHOOSE k \in 1..9 : RuleMatches(k, u) /\ \A j \in 1..(k - 1) : ~RuleMatches(j, u)

ScenarioB == <<U_gitlab, U_sourceware, U_bitbucket>>

\* C2: a URL that matches several rules lands in the bucket of the earliest
\* matching rule of the order bitbucket, sourceware, gitlab, commit, pull,
\* issues, patch, github, other; the three URLs of scenario B land in
\* gitlab, sourceware and bitbucket.
C2_EarliestRuleWins ==
    classify_calls = 1 =>
        /\ \A u \in Range(urls) : u \in Range(buckets[BucketNames[EarliestRule(u)]])
        /\ urls = ScenarioB =>
              /\ buckets["gitlab"] = <<U_gitlab>>
              /\ buckets["sourceware"] = <<U_sourceware>>
              /\ buckets["bitbucket"] = <<U_bitbucket>>
              /\ \A b \in BucketSet \ {"gitlab", "sourceware", "bitbucket"} :
                    buckets[b] = <<>>

C2_Witness ==
    /\ classify_calls = 1
    /\ urls = ScenarioB
    /\ RuleMatches(3, U_gitlab) /\ RuleMatches(4, U_gitlab)
    /\ RuleMatches(1, U_bitbucket) /\ RuleMatches(4, U_bitbucket)
    /\ buckets["gitlab"] = <<U_gitlab>>

(* ---------------------------------------------------------------------- *)
(* Claims about link discovery                                            *)
(* ---------------------------------------------------------------------- *)
\* What a source contributed: its answer, nothing when it failed.
Contributed(src) == IF src_out[src].ok THEN Range(src_out[src].urls) ELSE {}

\* The earliest source, in the order NVD, OSV, Debian, WebSearch, that
\* returned url.
EarliestSource(url) ==
    SourceOrder[CHOOSE k \in 1..Len(SourceOrder) :
                    /\ url \in Contributed(SourceOrder[k])
                    /\ \A j \in 1..(k - 1) : url \notin Contributed(SourceOrder[j])]

\* C3: the list returned by combine_and_extract_unique_links has no URL
\* twice, holds every URL returned by any of the four sources, and labels
\* each URL with the earliest source that returned it.
C3_UniqueFirstSourceWins ==
    discovery = "returned" =>
        /\ \A i, j \in 1..Len(raw_links) :
              raw_links[i].url = raw_links[j].url => i = j
        /\ {raw_links[i].url : i \in 1..Len(raw_links)}
              = UNION {Contributed(src) : src \in SourceSet}
        /\ \A i \in 1..Len(raw_links) :
              raw_links[i].source = EarliestSource(raw_links[i].url)

C3_Witness ==
    /\ discovery = "returned"
    /\ U_commit \in Contributed("OSV")
    /\ U_commit \in Contributed("WebSearch")
    /\ U_commit \notin Contributed("NVD")
    /\ Count(src_out["WebSearch"].urls, U_commit) = 2
    /\ \E i \in 1..Len(raw_links) :
          raw_links[i] = [url |-> U_commit, source |-> "OSV"]

\* C5: when exactly one of the four sources fails, link discovery still asks
\* the other sources, returns their links and raises nothing.
C5_OneFailureIsEmptyContribution ==
    (discovery # "none" /\ Cardinality({src \in SourceSet : ~src_out[src].ok}) = 1) =>
        /\ discovery = "returned"
        /\ queried = SourceSet
        /\ {raw_links[i].url : i \in 1..Len(raw_links)}
              = UNION {Contributed(src) : src \in SourceSet}


(* ---------------------------------------------------------------------- *)
(* Claims about a run                                                     *)
(* ---------------------------------------------------------------------- *)
\* The link entries of MainProcessor.run in the order NVD, OSV, Debian,
\* WebSearch, Manual Input.
AllLinks ==
    IF repo_url # NoUrl
    THEN Append(raw_links, [url |-> repo_url, source |-> "Manual Input"])
    ELSE raw_links

FirstLabel(url) ==
    LET at == {k \in 1..Len(AllLinks) : AllLinks[k].url = url}
    IN AllLinks[CHOOSE k \in at : \A j \in at : k <= j].source

\* C4: every URL handed to a processor carries the source of the first link
\* entry with that URL; a repository URL that a source had already
\* discovered keeps the label of that source.
C4_FirstSourceLabel ==
    \A k \in 1..Len(handed) : handed[k].source = FirstLabel(handed[k].url)

AfterMain == {"build", "write", "done", "crashed"}

\* C6: a failure inside a processor costs only the URL it happened on: when
\* MainProcessor.run is over, every URL of the seven processed buckets has
\* been handed to its processor.
C6_FailureSkipsOnlyThatUrl ==
    (pc \in AfterMain /\ discovery = "returned") =>
        Len(handed) = Len(DispatchList(buckets))

\* C7: when run_main_processor raised, run() still reads the whole store in
\* extract_and_build_output and writes the output file.
C7_OutputAfterMainFailure ==
    (main_raised /\ pc \in {"done", "crashed"}) =>
        /\ assembly_in.read
        /\ assembly_in.entries = store
        /\ out_file.state = "json"

\* C8: every run whose input was loaded ends with an output file that holds
\* a JSON object with all keys of the VEX shape and a list (never null)
\* under root_cause_functions.
C8_OutputAlwaysWellFormed ==
    pc \in {"done", "crashed"} =>
        /\ out_file.state = "json"
        /\ out_file.doc.root_cause_functions.ok
        /\ DOMAIN out_file.doc = {"cve", "package", "root_cause_functions", "vex"}

\* The function names the store entries of a commit URL carry.
NamesStored(entries, c) ==
    UNION { {e[4].val[1].items[k].function_name : k \in 1..Len(e[4].val[1].items)} :
            e \in {entries[i] : i \in {j \in 1..Len(entries) : entries[j][1].val = c}} }

\* C10: the aggregate read back from the store lists, for every commit URL
\* of the task's repository, exactly the function names of the consensus
\* records stored for it, each once.
C10_RoundTrip ==
    pc \in {"write", "done", "crashed"} =>
        \A c \in {assembly_in.entries[i][1].val : i \in 1..Len(assembly_in.entries)} :
            commit_matches_repo(c, repo_url) =>
                /\ output_content.ok
                /\ \E k \in 1..Len(output_content.commits) :
                      /\ output_content.commits[k].commit = c
                      /\ Range(output_content.commits[k].methods)
                            = NamesStored(assembly_in.entries, c)
                      /\ Len(output_content.commits[k].methods)
                            = Cardinality(NamesStored(assembly_in.entries, c))

(* ---------------------------------------------------------------------- *)
(* Claims about the analysis of a diff unit                               *)
(* ---------------------------------------------------------------------- *)
\* The cleaned response is a JSON object whose root_cause_functions is a
\* non-empty list.
GoodConsensus(resp) ==
    LET clean == extract_clean_json(resp)
    IN /\ clean # NoneVal
       /\ clean.type = "object"
       /\ clean.rcf = "list"
       /\ clean.items # <<>>

\* C9: a diff unit appends exactly one entry to ConsensusStore when its
\* cleaned consensus response is a JSON object with a non-empty list under
\* root_cause_functions, and leaves the store unchanged in every other case.
C9_StoreOnlyAcceptedUnits ==
    [][\A k \in 1..Len(files) :
          (/\ pc = "commit"
           /\ pc' = "commit"
           /\ files[k].status = "pending"
           /\ files'[k].status # "pending")
          => IF GoodConsensus(files'[k].resp)
             THEN /\ Len(store') = Len(store) + 1
                  /\ SubSeq(store', 1, Len(store)) = store
                  /\ store'[Len(store')][1].val = work.commit
                  /\ store'[Len(store')][4].val = <<extract_clean_json(files'[k].resp)>>
             ELSE store' = store]_vars

C9_Witness ==
    /\ pc = "commit"
    /\ Len(files) = 2
    /\ files[1].status = "none"
    /\ files[1].resp = <<S_empty>>
    /\ files[2].status = "result"
    /\ files[2].resp = <<S_text, S_one>>
    /\ Len(store) = 1

(* ---------------------------------------------------------------------- *)
(* Claims about the end-to-end scenario and repeated classification       *)
(* ---------------------------------------------------------------------- *)
\* C11: for the repository https://github.com/acme/foo, when the store holds
\* the consensus record {"root_cause_functions": [{"function_name":
\* "parseInput", ...}]} for a commit of that repository, the
\* root_cause_functions of the written output has an entry for that commit
\* that lists parseInput.
C11_ScenarioA ==
    (/\ pc = "done"
     /\ repo_url = U_repo
     /\ \E i \in 1..Len(store) :
           /\ store[i][1].val = U_commit
           /\ store[i][4].val = <<S_one.val>>)
    => /\ out_file.doc.root_cause_functions.ok
       /\ \E k \in 1..Len(out_file.doc.root_cause_functions.commits) :
             /\ out_file.doc.root_cause_functions.commits[k].commit = U_commit
             /\ "parseInput" \in
                   Range(out_file.doc.root_cause_functions.commits[k].methods)

\* C19: classifying the same URL list again on the same URLClassifier object
\* returns the bucket assignments of the first call, which are those of a
\* fresh classifier.
C19_SameObjectIdempotent ==
    classify_calls >= 1 => buckets = classify(NewClassifier, urls)

(* ---------------------------------------------------------------------- *)
(* Claims about the store across tasks and about the input                *)
(* ---------------------------------------------------------------------- *)
\* C14: the consensus store is cleared at the start of every run: when a
\* second task starts in the same process the store holds no entry of the
\* first, and the entries read by the second run's final assembly are only
\* those appended during the second run.
C14_StoreClearedPerRun ==
    finished # <<>> =>
        /\ (pc \in {"load", "main"} => store = <<>>)
        /\ (assembly_in.read =>
               assembly_in.entries
                  = SubSeq(store, finished[Len(finished)] + 1, Len(store)))

C18_MissingFieldsTolerated ==
    (/\ input_file.kind = "record"
     /\ pc # "load"
     /\ \/ input_file.purl \in {NoneStr, "foo"}
        \/ input_file.repo = NoUrl
        \/ input_file.cve = NoneStr)
    => /\ pc \notin {"aborted", "crashed"}
       /\ logged # {}
       /\ task.purl = input_file.purl
       /\ task.cve_id = input_file.cve
       /\ repo_url = input_file.repo
       /\ (input_file.purl # Purl => task.ecosystem = NoneStr)

(* ---------------------------------------------------------------------- *)
(* Claims about what reaches the model layer                              *)
(* ---------------------------------------------------------------------- *)
\* C15: a diff unit whose patch text is missing or empty is never submitted
\* to the model layer: neither analyze_patch_with_models nor
\* generate_consensus is called for it and its worker leaves the store
\* unchanged.
C15_EmptyPatchNoModelCall ==
    [][\A k \in 1..Len(files) :
          (pc = "commit" /\ pc' = "commit" /\ ~files[k].unit.patch)
          => /\ files'[k].called = {}
             /\ (files'[k] # files[k] => store' = store)]_vars

C15_Witness ==
    /\ pc = "commit"
    /\ work.analyser = "github"
    /\ Len(files) = 2
    /\ files[1].unit = DiffUnit(FN_parse, FALSE)
    /\ files[1].status = "none"
    /\ files[1].called = {}
    /\ files[2].unit = DiffUnit(FN_parse, TRUE)
    /\ files[2].called = ModelLayer
    /\ store = <<>>

\* C16: in all three analysers a diff unit reaches the model layer only if
\* its filename ends with an allowed extension and holds "test" in no
\* letter case; a file that fails the filter causes no model call and no
\* store entry.
C16_OnlyFilteredFilesReachModels ==
    [][\A k \in 1..Len(files) :
          (/\ pc = "commit"
           /\ pc' = "commit"
           /\ \/ files[k].unit.filename[Len(files[k].unit.filename)] \notin VALID_EXTENSIONS
              \/ \E i \in 1..Len(files[k].unit.filename) :
                    LowerHasTest(files[k].unit.filename[i]))
          => /\ files'[k].called = {}
             /\ (files'[k] # files[k] => store' = store)]_vars

C16_Witness ==
    /\ pc = "commit"
    /\ work.analyser = "gitlab"
    /\ Len(files) = 2
    /\ files[1].unit = DiffUnit(FN_Tests, TRUE)
    /\ files[1].status = "none"
    /\ files[1].called = {}
    /\ files[2].unit = DiffUnit(FN_parse, TRUE)
    /\ files[2].status = "result"
    /\ Len(store) = 1

(* ---------------------------------------------------------------------- *)
(* Claims about the aggregate                                             *)
(* ---------------------------------------------------------------------- *)
Assembled == pc \in {"write", "done", "crashed"}

\* C12: the final aggregate has at most one entry per commit URL and the
\* methods of an entry hold no name twice, however many stored blocks
\* share the commit URL and however often a name is repeated in them.
C12_OneEntryPerCommitNoDuplicates ==
    Assembled =>
        /\ \A i, j \in 1..Len(output_content.commits) :
              output_content.commits[i].commit = output_content.commits[j].commit
                 => i = j
        /\ \A k \in 1..Len(output_content.commits) :
              \A i, j \in 1..Len(output_content.commits[k].methods) :
                 output_content.commits[k].methods[i]
                    = output_content.commits[k].methods[j] => i = j

C12_Witness ==
    /\ Assembled
    /\ Len(store) = 3
    /\ store[1][1].val = U_commit
    /\ store[2][1].val = U_commit
    /\ store[3][1].val = U_commit
    /\ store[1][4].val = <<JObject("list", <<F_canonical, F_both>>)>>
    /\ store[2][4].val = <<JObject("list", <<F_canonical>>)>>
    /\ Len(output_content.commits) = 1
    /\ output_content.commits[1].methods = <<"foo.parseInput", "foo.readBuf">>

\* The commit URLs of the final aggregate.
AggregateCommits ==
    {output_content.commits[k].commit : k \in 1..Len(output_content.commits)}

\* C13: a stored block whose commit URL has an owner other than the owner
\* of the task's repository URL is excluded from the final aggregate,
\* unless the host of the commit URL is gitlab.com or sourceware.org, in
\* which case the block is kept whatever its owner.
C13_ForeignOwnerExcluded ==
    (Assembled /\ repo_url # NoUrl) =>
        \A i \in 1..Len(assembly_in.entries) :
            LET c == assembly_in.entries[i][1].val
            IN IF c[1] \in {"gitlab.com", "sourceware.org"}
               THEN (assembly_in.entries[i][4].val[1].items[1].canonical_name # <<>>)
                       => c \in AggregateCommits
               ELSE (FirstSegment(c[2]) # FirstSegment(repo_url[2]))
                       => c \notin AggregateCommits

(* ---------------------------------------------------------------------- *)
(* Claims about the reference URL                                         *)
(* ---------------------------------------------------------------------- *)
\* C20: get_reference_url gives https://nvd.nist.gov/vuln/detail/<id> for
\* NVD, https://osv.dev/list?q=<id>&ecosystem= for OSV, the tracker page of
\* the CVE for Debian, the URL cut at its first ";" for sourceware and
\* gitlab, the owner/repo form for a manual-input URL that contains
\* github.com and has at least 5 "/"-separated segments, and the URL
\* unchanged in every other case.
C20_ReferenceUrlRules ==
    ref_call.done =>
        LET id == ref_call.cve_id
            url == ref_call.url
            src == ref_call.source
            out == ref_call.result
            semi == {";a=commitdiff", ";a=blobdiff", ";h=deadbeef"}
        IN CASE src = "NVD" -> out = <<"nvd.nist.gov", "/vuln/detail/", id>>
             [] src = "OSV" -> out = <<"osv.dev", "/list?q=", id, "&ecosystem=">>
             [] src = "Debian" -> out = <<"security-tracker.debian.org", "/tracker/", id>>
             [] src \in {"sourceware", "gitlab"} ->
                   \E n \in 0..Len(url) :
                      /\ out = SubSeq(url, 1, n)
                      /\ \A i \in 1..n : url[i] \notin semi
                      /\ n < Len(url) => url[n + 1] \in semi
             [] src = "Manual Input" ->
                   IF (\E i \in 1..Len(url) : url[i] = "github.com") /\ Len(url) >= 3
                   THEN out = SubSeq(url, 1, 3)
                   ELSE out = url
             [] OTHER -> out = url

C20_Witness ==
    /\ ref_call.done
    /\ ref_call.source = "Manual Input"
    /\ ref_call.url = U_commit
    /\ ref_call.result = U_repo

(* ---------------------------------------------------------------------- *)
(* Claims about the CVSS rating                                           *)
(* ---------------------------------------------------------------------- *)
\* The entry extract_cvss is said to read: the first one of cvssMetricV31
\* when the key is present, else the first one of cvssMetricV2.
CvssChosen(metrics) ==
    IF metrics.cvssMetricV31 # NoMetric THEN metrics.cvssMetricV31
    ELSE metrics.cvssMetricV2

\* C21: extract_cvss reads cvssMetricV31 whenever it is present and
\* cvssMetricV2 only when cvssMetricV31 is absent, and in both cases the
\* method is the part of the vector string before its first "/" and the
\* vector is the rest of the string.
C21_MethodVectorSplit ==
    (cvss_call.done /\ CvssChosen(cvss_call.metrics) # NoMetric) =>
        LET m == CvssChosen(cvss_call.metrics)[1]
        IN /\ cvss_call.result.score = m.baseScore
           /\ cvss_call.result.method = m.vectorString[1]
           /\ cvss_call.result.vector = Tail(m.vectorString)

(* ---------------------------------------------------------------------- *)
(* Claims about the hosts of the sourceware and gitlab buckets            *)
(* ---------------------------------------------------------------------- *)
\* C27: classify puts a URL into the sourceware bucket only if its host is
\* sourceware.org and into the gitlab bucket only if its host is gitlab.com;
\* a URL of another host that has the string in its path or query is not
\* put there.
C27_BucketOnlyByHost ==
    classify_calls = 1 =>
        /\ \A u \in Range(buckets["sourceware"]) : u[1] = "sourceware.org"
        /\ \A u \in Range(buckets["gitlab"]) : u[1] = "gitlab.com"

(* ---------------------------------------------------------------------- *)
(* Claims about the model layer                                           *)
(* ---------------------------------------------------------------------- *)
\* The prompts of the model calls issued so far are all the same.
SamePrompts ==
    \A i, j \in 1..Len(llm.prompts) : llm.prompts[i] = llm.prompts[j]

\* The model layer has finished with the diff unit, by a return of
\* generate_consensus or by an exception.
LlmEnded == llm.phase \in {"done", "raised"}

\* C25: for a diff unit submitted to the model layer exactly 6 model calls
\* with the identical prompt are issued and then exactly one consensus call;
\* the consensus call starts only after all 6 model calls have returned, and
\* its messages contain all 6 responses.
C25_SixCallsThenOneConsensus ==
    /\ LlmEnded => (llm.issued = 6 /\ SamePrompts /\ llm.consensus_calls = 1)
    /\ llm.consensus_calls > 0 =>
          /\ llm.issued = 6
          /\ llm.in_flight = 0
          /\ \A run \in 1..6 : \E k \in 1..Len(llm.messages) : llm.messages[k].run = run

\* C26: the model calls of one diff unit are made in parallel: a model layer
\* that got through its calls has had, at some moment, more than one of the
\* 6 calls in flight.
C26_CallsInParallel ==
    llm.phase = "done" => llm.peak > 1

(* ---------------------------------------------------------------------- *)
(* Claims about the order of the bucket loops                             *)
(* ---------------------------------------------------------------------- *)
\* The URLs of the seven processed buckets in the order bitbucket,
\* sourceware, gitlab, commit, pull, issues, patch, each bucket in the order
\* of its list.
InBucketOrder ==
    buckets["bitbucket"] \o buckets["sourceware"] \o buckets["gitlab"]
    \o buckets["commit"] \o buckets["pull"] \o buckets["issues"]
    \o buckets["patch"]

\* C24: MainProcessor.run hands the URLs to the processors bucket by bucket
\* in the order bitbucket, sourceware, gitlab, commit, pull, issues, patch
\* and inside a bucket in list order, one URL at a time (a URL is handed
\* over only when no processor is working), and a URL classified github or
\* other is never handed to a processor.
C24_BucketsInOrderOneAtATime ==
    [][/\ \A k \in 1..Len(handed') :
             /\ k <= Len(InBucketOrder')
             /\ handed'[k].url = InBucketOrder'[k]
             /\ handed'[k].url \notin Range(buckets'["github"]) \cup Range(buckets'["other"])
       /\ handed' # handed =>
             /\ work = NoWork
             /\ files = <<>>
             /\ Len(handed') = Len(handed) + 1
             /\ pc' = "url" => work'.url = handed'[Len(handed')].url]_vars

C24_Witness ==
    /\ pc = "url"
    /\ urls = <<U_commit, U_other, U_sourceware, U_repo>>
    /\ Len(handed) = 2
    /\ handed[1].url = U_sourceware
    /\ handed[2].url = U_commit
    /\ work.url = U_commit
    /\ buckets["github"] = <<U_repo>>
    /\ buckets["other"] = <<U_other>>

(* ---------------------------------------------------------------------- *)
(* Claims about the workers of one commit and the store                   *)
(* ---------------------------------------------------------------------- *)
\* The worker of future f reached the model layer and got a consensus
\* response that is accepted.
AcceptedUnit(f) == f.called = ModelLayer /\ GoodConsensus(f.resp)

\* The entry the worker of future f appends for the commit under analysis.
EntryOf(f) ==
    consensus_entry(work.commit, extract_clean_json(f.resp), task.cve_id, work.source)

\* The entries of the store that belong to the commit under analysis.
OfCommit(data) == SelectSeq(data, LAMBDA e : e[1].val = work.commit)

\* C22: while the workers of a commit run concurrently, every step leaves
\* the entries already in the store in place (the store only grows), and
\* once all workers have finished the store holds for that commit exactly
\* one entry per accepted diff unit, each as its worker built it: none lost,
\* duplicated or altered.
C22_ConcurrentAddKeepsEveryEntry ==
    [][pc = "commit" =>
          /\ Len(store') >= Len(store)
          /\ SubSeq(store', 1, Len(store)) = store
          /\ (pc' = "commit" /\ \A k \in 1..Len(files') : files'[k].status # "pending") =>
                /\ Len(OfCommit(store')) =
                      Cardinality({k \in 1..Len(files') : AcceptedUnit(files'[k])})
                /\ \A k \in 1..Len(files') :
                      AcceptedUnit(files'[k]) =>
                          Count(store', EntryOf(files'[k])) =
                              Cardinality({j \in 1..Len(files') :
                                              /\ AcceptedUnit(files'[j])
                                              /\ EntryOf(files'[j]) = EntryOf(files'[k])})]_vars

C22_Witness ==
    /\ pc = "commit"
    /\ Len(files) = 2
    /\ AcceptedUnit(files[1])
    /\ AcceptedUnit(files[2])
    /\ Len(store) = 2
    /\ store[1] = EntryOf(files[2])
    /\ store[2] = EntryOf(files[1])
    /\ store[1] # store[2]

\* C23: analyze_commit_for_cve is left, by return or by exception, only
\* when none of the tasks it submitted is still pending, and the store is
\* read back by extract_and_build_output only when no worker is pending;
\* after the read-back the store does not change.
C23_JoinAllBeforeReadBack ==
    [][/\ (pc = "commit" /\ pc' # "commit") =>
             \A k \in 1..Len(files) : files[k].status # "pending"
       /\ (assembly_in' # assembly_in) =>
             /\ \A k \in 1..Len(files) : files[k].status # "pending"
             /\ pc # "commit"
             /\ assembly_in'.entries = store
       /\ assembly_in.read => store' = store]_vars

C23_Witness ==
    /\ assembly_in.read
    /\ main_raised
    /\ handed # <<>>
    /\ handed[1].bucket = "commit"
    /\ Len(assembly_in.entries) = 1
    /\ files = <<>>

\* C29: when the worker of one file of a commit raises, the entries the
\* workers of the other files append, before or after it, stay in the
\* store: the analyser leaves with the exception, without a write_to_output
\* call and without touching the store, no step of the run removes an entry,
\* and extract_and_build_output reads every entry of the store.
C29_EntriesSurviveWorkerFailure ==
    [][/\ Len(store') >= Len(store)
       /\ SubSeq(store', 1, Len(store)) = store
       /\ (/\ pc = "commit"
           /\ \E k \in 1..Len(files) : files[k].status = "raised"
           /\ \E k \in 1..Len(files) : files[k].status = "pending") =>
             \A k \in 1..Len(files) :
                (files[k].status = "pending" /\ AcceptedUnit(files'[k])) =>
                    store' = Append(store, EntryOf(files'[k]))
       /\ (/\ pc = "commit"
           /\ pc' # "commit"
           /\ \E k \in 1..Len(files) : files[k].status = "raised") =>
             /\ store' = store
             /\ write_calls' = write_calls
             /\ Len(OfCommit(store)) =
                   Cardinality({k \in 1..Len(files) : AcceptedUnit(files[k])})
       /\ (assembly_in' # assembly_in) => assembly_in'.entries = store]_vars

C29_Witness ==
    /\ pc \in {"write", "done", "crashed"}
    /\ handed # <<>>
    /\ handed[1].bucket = "issues"
    /\ ~main_raised
    /\ write_calls = <<>>
    /\ assembly_in.read
    /\ Len(assembly_in.entries) = 2
    /\ assembly_in.entries[1][1].val # assembly_in.entries[2][1].val

(* ---------------------------------------------------------------------- *)
(* Claims about Sourceware URLs                                           *)
(* ---------------------------------------------------------------------- *)
\* C30: no step of the processing of a Sourceware URL changes the store and
\* no worker of SourcewareAnalyser reaches the model layer; once the files
\* of a commit are submitted, the analyser is left without a write_to_output
\* call (it never returns normally), SourcewareProcessor.process ends the
\* URL without an exception reaching MainProcessor.run, and run goes on
\* with the next position of its loops.
C30_SourcewareNeverStores ==
    [][work.analyser = "sourceware" =>
          /\ store' = store
          /\ \A k \in 1..Len(files') : files'[k].called = {}
          /\ \A k \in 1..Len(files) :
                (pc' = "commit" /\ files[k].status = "pending"
                 /\ files'[k].status # "pending"
                 /\ is_valid_source_file(files[k].unit.filename)) =>
                    files'[k].status \in {"none", "raised"}
          /\ (pc = "commit" /\ pc' # "commit") =>
                /\ write_calls' = write_calls
                /\ main_raised' = main_raised
                /\ pc' = "url"
                /\ work'.commits = <<>>
          /\ (pc = "url" /\ pc' # "url" /\ pc' # "commit") =>
                /\ pc' = "dispatch"
                /\ cursor' = cursor + 1
                /\ main_raised' = main_raised]_vars

C30_Witness ==
    /\ pc = "commit"
    /\ work.analyser = "sourceware"
    /\ work.url = U_sourceware
    /\ Len(files) = 1
    /\ is_valid_source_file(files[1].unit.filename)
    /\ files[1].status = "raised"
    /\ files[1].called = {}
    /\ cursor < Len(DispatchList(buckets))

(* ---------------------------------------------------------------------- *)
(* Claims about the append order of the workers                           *)
(* ---------------------------------------------------------------------- *)
\* The orders in which n workers can have appended.
AppendOrders(n) ==
    {p \in [1..n -> 1..n] : \A i, j \in 1..n : p[i] = p[j] => i = j}

\* What the aggregate says about a commit URL, with the methods as a set;
\* NoneVal when the aggregate has no entry for it.
AboutCommit(content, url) ==
    LET at == {k \in 1..Len(content.commits) : content.commits[k].commit = url}
    IN IF at = {} THEN [package |-> "", version |-> "", source |-> "",
                        methods |-> {}, present |-> FALSE]
       ELSE LET c == content.commits[CHOOSE k \in at : TRUE]
            IN [package |-> c.package, version |-> c.version,
                source |-> c.source.name, methods |-> Range(c.methods),
                present |-> TRUE]

\* C28: the aggregate built from the store does not depend on the order in
\* which the workers appended: for every other order of the same entries,
\* every commit URL has the same package, version, source and set of
\* methods.
C28_AggregateIndependentOfOrder ==
    Assembled =>
        \A p \in AppendOrders(Len(store)) :
            LET other == output_content_of([k \in 1..Len(store) |-> store[p[k]]],
                                           repo_url)
            IN /\ other.ok = output_content.ok
               /\ \A k \in 1..Len(store) :
                     AboutCommit(other, store[k][1].val) =
                        AboutCommit(output_content, store[k][1].val)

====
